---- MODULE Spec2Model ----
(***************************************************************************)
(* docker-py: the Unix-socket transport (docker/transport/unixconn.py).    *)
(*                                                                         *)
(* UnixHTTPAdapter keeps a bounded least-recently-used cache of            *)
(* UnixHTTPConnectionPool objects (urllib3's RecentlyUsedContainer),       *)
(* guarded by the container's re-entrant lock.  Each pool is a urllib3     *)
(* HTTPConnectionPool: a bounded LIFO queue of idle connections, created   *)
(* with block=False.                                                       *)
(*                                                                         *)
(* Specifications:                                                         *)
(*   Spec      threads calling get_connection concurrently                 *)
(*   SpecPool  callers of one pool: _get_conn, connect, _put_conn, close   *)
(*   SpecLend  Spec together with _get_conn, connect and _put_conn         *)
(*   SpecUrl   UnixHTTPAdapter.__init__ over a set of socket urls, and     *)
(*             request_url                                                 *)
(*   SpecConnect          UnixHTTPConnection.connect against a peer        *)
(*   SpecStore            docker/credentials/store.py against a helper     *)
(*   SpecEnviron          create_environment_dict                          *)
(*   SpecResource         a method wrapped by check_resource               *)
(*   SpecContainerConfig  ContainerConfig(...)                             *)
(*   SpecHostConfig       HostConfig(...) and DeviceRequest(...)           *)
(*   SpecModel            Model.__eq__ and Model.__hash__                  *)
(***************************************************************************)
EXTENDS Integers, Sequences, FiniteSets, TLC

\* ---------------------------------------------------------------- bounds
\* Number of threads that use the adapter concurrently.
NumThreads == 2
\* Number of distinct urls passed to get_connection.
NumUrls == 3
\* Largest max_pool_size (the pool's maxsize) an adapter is built with.
MaxPoolSize == 2
\* Number of connection objects that can be alive at the same time.
MaxConns == 3
\* Largest number of pieces a socket url is put together from.
MaxPieces == 3
\* Largest number of close() calls made on one pool by its holders.
MaxCloses == 2

\* timeout: int=60 (UnixHTTPAdapter.__init__)
DefaultTimeout == 60

Threads == 1..NumThreads
Urls == 1..NumUrls
ConnIds == 1..MaxConns
\* Pool objects are named by the url they were made for and a generation:
\* of the pools made for one url, one is cached or being inserted and every
\* other one is held by a thread or is being disposed of.
Generations == 1..(NumThreads + 1)
PoolLabel(u, g) == (g - 1) * NumUrls + u
PoolIds == 1..(NumUrls * (NumThreads + 1))
\* A reference to no object (Python's None).
None == 0

\* ---------------------------------------------------------------- strings
\* A string is the sequence of its characters.
Scheme == <<"h","t","t","p","+","u","n","i","x",":","/","/">>

\* str.startswith(prefix)
startswith(s, prefix) ==
    /\ Len(prefix) <= Len(s)
    /\ SubSeq(s, 1, Len(prefix)) = prefix

\* str.replace(old, new) for a non-empty old: every non-overlapping
\* occurrence, scanning from the left.
RECURSIVE replace(_, _, _)
replace(s, old, new) ==
    IF s = <<>> THEN <<>>
    ELSE IF startswith(s, old)
         THEN new \o replace(SubSeq(s, Len(old) + 1, Len(s)), old, new)
         ELSE <<Head(s)>> \o replace(Tail(s), old, new)

\* The socket urls an adapter is constructed with: up to MaxPieces pieces.
Pieces == { Scheme, <<"/">>, <<"v">>, <<"h","t","t","p","+">>,
            <<"u","n","i","x",":","/","/">> }

RECURSIVE Concat(_)
Concat(ps) == IF ps = <<>> THEN <<>> ELSE Head(ps) \o Concat(Tail(ps))

SocketUrls ==
    { Concat(ps) : ps \in UNION { [1..n -> Pieces] : n \in 0..MaxPieces } }

\* The url the adapters of Spec, SpecPool and SpecLend are built with.
DefaultSocketUrl == Scheme \o <<"/","v">>

\* ---------------------------------------------------------------- objects
NoAdapter == [tag |-> "none"]
NoPool == [tag |-> "none"]
NoConn == [tag |-> "none"]

\* UnixHTTPAdapter.__init__: socket_path from socket_url.
SocketPath(socket_url) ==
    LET socket_path == replace(socket_url, Scheme, <<>>)
    IN IF ~startswith(socket_path, <<"/">>)
       THEN <<"/">> \o socket_path
       ELSE socket_path

\* UnixHTTPAdapter.__init__: pools is RecentlyUsedContainer(pool_connections,
\* dispose_func = p.close()), empty after construction.
UnixHTTPAdapter(socket_url, timeout, pool_connections, max_pool_size) ==
    [ tag |-> "adapter",
      socket_path |-> SocketPath(socket_url),
      timeout |-> timeout,
      max_pool_size |-> max_pool_size,
      pool_connections |-> pool_connections ]

\* UnixHTTPConnectionPool.__init__: HTTPConnectionPool.__init__('localhost',
\* timeout, maxsize) fills a queue of maxsize slots with None and leaves
\* block at its default (False).  closed stands for self.pool being None.
\* closedBy and closes are history: who closed the pool first ("user" or
\* "evict") and how many times close() was called on it.
UnixHTTPConnectionPool(base_url, socket_path, timeout, maxsize) ==
    [ tag |-> "pool",
      base_url |-> base_url,
      socket_path |-> socket_path,
      timeout |-> timeout,
      maxsize |-> maxsize,
      queue |-> [i \in 1..maxsize |-> None],
      closed |-> FALSE,
      closedBy |-> "none",
      closes |-> 0 ]

\* UnixHTTPConnection.__init__: no socket until connect().
\* owner is history: the pool whose _new_conn made the connection.
UnixHTTPConnection(base_url, unix_socket, timeout, owner) ==
    [ tag |-> "conn",
      base_url |-> base_url,
      unix_socket |-> unix_socket,
      timeout |-> timeout,
      sock |-> "none",
      owner |-> owner ]

\* ---------------------------------------------------------------- state
VARIABLES
    socket_url,   \* the socket_url argument of UnixHTTPAdapter.__init__
    adapter,      \* the adapter's attributes, NoAdapter before __init__
    pools,        \* adapter.pools: the OrderedDict, least recently used first
    lock,         \* adapter.pools.lock: the thread that owns it, or None
    heap,         \* the pool objects, by identity
    conns,        \* the connection objects, by identity
    pc,           \* each thread's position
    url,          \* each thread's url argument of get_connection
    pool,         \* each thread's local pool (its result once returned)
    evicted,      \* each thread's evicted_value in __setitem__
    conn,         \* the connection each thread got from _get_conn
    lent,         \* whether that connection is lent (not yet put back)
    recency,      \* history: urls by their last use in get_connection
    before,       \* history: the cache as the last insert found it
    seen,         \* history: the values request_url returned, per request
    peer,         \* what is at the path unix_socket
    calls,        \* history: the socket calls of each thread's last connect()
    raised,       \* the exception each thread's last connect() raised
    socks,        \* the socket each thread's last connect() made
    os_environ,   \* os.environ: the process environment
    helper,       \* the helper executable on the search path
    keychain,     \* the credentials the helper keeps, by server
    store,        \* the Store's attributes, NoStore before __init__
    op,           \* the Store operation in progress and how it ended
    written,      \* history: what the Store last stored or erased, by server
    invoked,      \* the last call of a check_resource method and how it ended
    built,        \* the last ContainerConfig or HostConfig construction
    compared      \* the last two Model objects compared, and the results

\* The variables of the transport, of connect(), of the credentials store
\* and of the decorators, configuration types and models.
transportVars == << socket_url, adapter, pools, lock, heap, conns, pc, url,
                    pool, evicted, conn, lent, recency, before, seen >>
dialVars == << peer, calls, raised, socks >>
storeVars == << os_environ, helper, keychain, store, op, written >>
typeVars == << invoked, built, compared >>

vars == << transportVars, dialVars, storeVars, typeVars >>

\* ---------------------------------------------------------------- container
\* The OrderedDict of RecentlyUsedContainer is a sequence of entries.
Keys(c) == { c[i].key : i \in 1..Len(c) }
Values(c) == { c[i].value : i \in 1..Len(c) }
IndexOf(c, key) == CHOOSE i \in 1..Len(c) : c[i].key = key
ValueOf(c, key) == c[IndexOf(c, key)].value
Without(c, key) == SelectSeq(c, LAMBDA e : e.key # key)

\* A __getitem__ that leaves the item where it is in the eviction line.
getitem_NoReorder(c, key) ==
    [ container |-> c, item |-> ValueOf(c, key) ]

\* RecentlyUsedContainer.__getitem__: pop the item and re-insert it at the
\* end of the eviction line.
getitem(c, key) ==
    [ container |-> Append(Without(c, key), [key |-> key, value |-> ValueOf(c, key)]),
      item |-> ValueOf(c, key) ]

\* MutableMapping.get: self[key], None on KeyError.
get(c, key) ==
    IF key \in Keys(c) THEN getitem(c, key)
    ELSE [ container |-> c, item |-> None ]

\* A __setitem__ that never evicts.
setitem_NoEvict(c, maxsize, key, value) ==
    [ container |-> Append(Without(c, key), [key |-> key, value |-> value]),
      evicted_value |-> None ]

\* RecentlyUsedContainer.__setitem__: the value key had, if any, is evicted
\* (the key keeps its place); beyond maxsize the first, least recently used,
\* entry is evicted instead.
setitem(c, maxsize, key, value) ==
    LET had == IF key \in Keys(c) THEN ValueOf(c, key) ELSE None
        put == IF key \in Keys(c)
               THEN [c EXCEPT ![IndexOf(c, key)].value = value]
               ELSE Append(c, [key |-> key, value |-> value])
    IN IF Len(put) > maxsize
       THEN [ container |-> Tail(put), evicted_value |-> Head(put).value ]
       ELSE [ container |-> put, evicted_value |-> had ]

\* ---------------------------------------------------------------- pool
Range(q) == { q[i] : i \in 1..Len(q) }

\* HTTPConnection.close() on each of ids: the socket is closed and dropped.
CloseConns(c, ids) ==
    [ k \in ConnIds |-> IF k \in ids /\ c[k] # NoConn
                        THEN [c[k] EXCEPT !.sock = "none"]
                        ELSE c[k] ]

\* A close() that disables the pool without draining its queue.
close_KeepIdle(h, c, p, who) ==
    IF h[p].closed
    THEN [ heap |-> [h EXCEPT ![p].closes = @ + 1], conns |-> c ]
    ELSE [ heap |-> [h EXCEPT ![p].closed = TRUE, ![p].queue = <<>>,
                              ![p].closedBy = who, ![p].closes = @ + 1],
           conns |-> c ]

\* HTTPConnectionPool.close(): nothing when self.pool is None; otherwise
\* self.pool becomes None and the queue is drained, closing each connection
\* found in it (_close_pool_connections).
close(h, c, p, who) ==
    IF h[p].closed
    THEN [ heap |-> [h EXCEPT ![p].closes = @ + 1], conns |-> c ]
    ELSE [ heap |-> [h EXCEPT ![p].closed = TRUE, ![p].queue = <<>>,
                              ![p].closedBy = who, ![p].closes = @ + 1],
           conns |-> CloseConns(c, Range(h[p].queue) \ {None}) ]

\* A _put_conn whose queue is never full.
put_conn_NoFull(h, c, p, k) ==
    IF h[p].closed
    THEN [ heap |-> h, conns |-> CloseConns(c, {k}) ]
    ELSE [ heap |-> [h EXCEPT ![p].queue = Append(@, k)], conns |-> c ]

\* HTTPConnectionPool._put_conn: self.pool.put(conn, block=False); when the
\* pool is closed (AttributeError) or the queue is full (queue.Full) the
\* connection is closed and discarded.
put_conn(h, c, p, k) ==
    IF h[p].closed \/ Len(h[p].queue) >= h[p].maxsize
    THEN [ heap |-> h, conns |-> CloseConns(c, {k}) ]
    ELSE [ heap |-> [h EXCEPT ![p].queue = Append(@, k)], conns |-> c ]

\* A miss that leaves maxsize at UnixHTTPConnectionPool's default.
NewPool_DefaultMaxsize(a, base_url) ==
    UnixHTTPConnectionPool(base_url, a.socket_path, a.timeout, 10)

\* get_connection, lines 77-80: the pool a miss constructs.
NewPool(a, base_url) ==
    UnixHTTPConnectionPool(base_url, a.socket_path, a.timeout, a.max_pool_size)

\* UnixHTTPConnectionPool._new_conn
NewConn(h, p) ==
    UnixHTTPConnection(h[p].base_url, h[p].socket_path, h[p].timeout, p)

\* ---------------------------------------------------------------- objects' lifetime
\* An object lives while something refers to it.  A pool nobody refers to
\* is finalized (weakref_finalize: _close_pool_connections on its queue); a
\* connection nobody refers to goes once its socket is closed.
LivePools(cache, tpool, tevicted) ==
    (Values(cache) \cup { tpool[t] : t \in Threads }
                   \cup { tevicted[t] : t \in Threads }) \ {None}

Collect(h, c, cache, tpool, tevicted, tconn) ==
    LET live == LivePools(cache, tpool, tevicted)
        dead == { p \in PoolIds : h[p] # NoPool /\ p \notin live }
        h2 == [ p \in PoolIds |-> IF p \in live THEN h[p] ELSE NoPool ]
        finalized == UNION { Range(h[p].queue) : p \in dead } \ {None}
        c2 == CloseConns(c, finalized)
        held == (UNION { Range(h2[p].queue) : p \in { q \in PoolIds : h2[q] # NoPool } }
                 \cup { tconn[t] : t \in Threads }) \ {None}
    IN [ heap |-> h2,
         conns |-> [ k \in ConnIds |->
                       IF c2[k] # NoConn /\ k \notin held /\ c2[k].sock = "none"
                       THEN NoConn ELSE c2[k] ] ]

\* The identity a new object takes: the first free one.
FreePool(h, u) ==
    PoolLabel(u, CHOOSE g \in Generations :
        /\ h[PoolLabel(u, g)] = NoPool
        /\ \A f \in Generations : h[PoolLabel(u, f)] = NoPool => g <= f)
FreeConn(c) == CHOOSE k \in ConnIds :
    /\ c[k] = NoConn
    /\ \A j \in ConnIds : c[j] = NoConn => k <= j

\* ---------------------------------------------------------------- connect
\* What the path unix_socket leads to: a listening socket, nothing, a file
\* that is not a socket or a socket nobody listens on, or a socket whose
\* listener does not accept within the timeout.
Peers == {"listening", "missing", "refusing", "silent"}

\* The exception sock.connect(self.unix_socket) raises: OSError is raised as
\* the subclass of its errno (ENOENT, ECONNREFUSED), a timeout as
\* socket.timeout, which is TimeoutError.
DialError(p) ==
    CASE p = "listening" -> "none"
      [] p = "missing" -> "FileNotFoundError"
      [] p = "refusing" -> "ConnectionRefusedError"
      [] p = "silent" -> "TimeoutError"

\* The calls one dial makes on the new socket.
Dial(c) ==
    << [call |-> "settimeout", arg |-> c.timeout],
       [call |-> "connect", arg |-> c.unix_socket] >>

\* A connect() that dials a second time when the first dial failed.
connect_Retry(c, p) ==
    [ conn |-> IF DialError(p) = "none" THEN [c EXCEPT !.sock = "open"] ELSE c,
      socket |-> IF DialError(p) = "none" THEN "kept" ELSE "left",
      calls |-> IF DialError(p) = "none"
                THEN << [call |-> "socket"] >> \o Dial(c)
                ELSE << [call |-> "socket"] >> \o Dial(c) \o Dial(c),
      raised |-> DialError(p) ]

\* UnixHTTPConnection.connect, lines 28-32: a new socket, settimeout, one
\* connect; self.sock is set when connect returned, and an exception of
\* connect leaves the method at once.  The socket is then the local sock of
\* the frame the exception refers to: nothing has closed it.
connect(c, p) ==
    [ conn |-> IF DialError(p) = "none" THEN [c EXCEPT !.sock = "open"] ELSE c,
      socket |-> IF DialError(p) = "none" THEN "kept" ELSE "left",
      calls |-> << [call |-> "socket"] >> \o Dial(c),
      raised |-> DialError(p) ]

\* ================================================================ credentials
\* docker/credentials/store.py and utils.py: Store runs the helper
\* executable docker-credential-<program>, one process per operation.

\* ---------------------------------------------------------------- bounds
\* Number of servers credentials are kept for.
NumServers == 2
\* Number of environment variables.
NumEnvKeys == 2

\* ---------------------------------------------------------------- values
\* A Python value carries its type.  The characters of a str are a
\* sequence; the content of a bytes is the UTF-8 of a str ("utf8"), a JSON
\* document ("json") or a message of the helper ("text").
NoValue == [type |-> "none"]
str(chars) == [type |-> "str", form |-> "utf8", v |-> chars]
isinstance(x, type) == x.type = type

\* The UTF-8 encoding of a character; "eacute" is U+00E9.
Utf8(ch) ==
    CASE ch = "s" -> <<115>>
      [] ch = "t" -> <<116>>
      [] ch = "u" -> <<117>>
      [] ch = "p" -> <<112>>
      [] ch = "eacute" -> <<195, 169>>
Alphabet == {"s", "t", "u", "p", "eacute"}

\* str.encode('utf-8').  A JSON document made by json.dumps and a message
\* are ASCII, their bytes are their characters.
encode(x) ==
    IF x.form = "utf8"
    THEN [type |-> "bytes", form |-> "utf8",
          v |-> Concat([i \in 1..Len(x.v) |-> Utf8(x.v[i])])]
    ELSE [x EXCEPT !.type = "bytes"]

RECURSIVE DecodeUtf8(_)
DecodeUtf8(b) ==
    IF b = <<>> THEN <<>>
    ELSE LET n == IF Head(b) >= 128 THEN 2 ELSE 1
         IN << CHOOSE ch \in Alphabet : Utf8(ch) = SubSeq(b, 1, n) >>
            \o DecodeUtf8(SubSeq(b, n + 1, Len(b)))

\* bytes.decode('utf-8')
decode(x) ==
    IF x.form = "utf8"
    THEN [type |-> "str", form |-> "utf8", v |-> DecodeUtf8(x.v)]
    ELSE [x EXCEPT !.type = "str"]

\* json's escaping of a string (ensure_ascii) and its inverse.
Escape(chars) ==
    [i \in 1..Len(chars) |-> IF chars[i] = "eacute" THEN "\\u00e9" ELSE chars[i]]
Unescape(chars) ==
    [i \in 1..Len(chars) |-> IF chars[i] = "\\u00e9" THEN "eacute" ELSE chars[i]]

\* json.dumps of a dict of strings, given as the sequence of its items.
dumps(items) ==
    [type |-> "str", form |-> "json",
     v |-> [i \in 1..Len(items) |->
              [key |-> Escape(items[i].key), value |-> Escape(items[i].value)]]]

\* json.loads of the text of an object: the dict, a later member replacing
\* an earlier one of the same key.
loads(x) ==
    LET keys == { Unescape(x.v[i].key) : i \in 1..Len(x.v) }
        last(k) == CHOOSE i \in 1..Len(x.v) :
                      /\ Unescape(x.v[i].key) = k
                      /\ \A j \in (i + 1)..Len(x.v) : Unescape(x.v[j].key) # k
    IN [type |-> "dict", items |-> [k \in keys |-> Unescape(x.v[last(k)].value)]]

\* ---------------------------------------------------------------- inputs
ServerName(i) ==
    IF i % 2 = 1 THEN [j \in 1..i |-> "s"]
    ELSE <<"eacute">> \o [j \in 1..(i - 1) |-> "t"]
ServerNames == { ServerName(i) : i \in 1..NumServers }
\* A server is passed as a str, or as bytes to get and erase.
Servers == { str(s) : s \in ServerNames }
ServersOrBytes == Servers \cup { encode(s) : s \in Servers }
Usernames == { <<>>, <<"u">> }
Secrets == { <<>>, <<"p">> }
Programs == { "desktop", "pass" }

EnvKeys == 1..NumEnvKeys
EnvVals == { "a", "b" }
\* The dicts from environment variables to their values.
Environs == UNION { [ks -> EnvVals] : ks \in SUBSET EnvKeys }
\* The environment argument of Store: None or a dict.
NoneEnv == [type |-> "none"]
Overrides == { NoneEnv } \cup { [type |-> "dict", items |-> e] : e \in Environs }

\* ---------------------------------------------------------------- errors
NoError == [class |-> "none", message |-> <<>>]
\* errors.StoreError(message), errors.CredentialsNotFound(message)
StoreError(message) == [class |-> "StoreError", message |-> message]
CredentialsNotFound(message) == [class |-> "CredentialsNotFound", message |-> message]

\* constants.PROGRAM_PREFIX
PROGRAM_PREFIX == "docker-credential-"

\* errno.ENOENT
ENOENT == 2

\* errors.process_store_error(cpe, program): the StoreError a non-zero exit
\* of the helper is translated into, carrying the helper's message.
process_store_error(cpe, program) ==
    StoreError(<<"Credentials store ">> \o program \o <<" exited with \"">>
               \o decode(cpe.output).v \o <<"\".">>)

\* f'{self.program} not installed or not available in PATH'
NotInstalled(program) ==
    program \o <<" ", "not installed", " or not available in PATH">>

\* ---------------------------------------------------------------- Store
NoStore == [tag |-> "none"]
\* shutil.which returning None.
NoPath == <<>>
HelperStates == {"absent", "executable", "noexec", "broken"}

\* shutil.which(program): the path of an executable file of that name on the
\* search path, None when there is none.
which(program, h) ==
    IF h \in {"executable", "broken"} THEN <<"/usr/bin/">> \o program
    ELSE NoPath

\* Store.__init__, lines 14-26.
StoreNew(program, environment, h) ==
    [ tag |-> "store",
      program |-> <<PROGRAM_PREFIX, program>>,
      exe |-> which(<<PROGRAM_PREFIX, program>>, h),
      environment |-> environment ]

\* dict.update
update(d, o) ==
    [k \in DOMAIN d \cup DOMAIN o |-> IF k \in DOMAIN o THEN o[k] ELSE d[k]]

\* A create_environment_dict that updates os.environ itself.
create_environment_dict_NoCopy(overrides, environ) ==
    LET o == IF overrides.type = "none" THEN <<>> ELSE overrides.items
    IN [ result |-> update(environ, o),
         environ |-> update(environ, o),
         overrides |-> overrides ]

\* utils.create_environment_dict(overrides): a copy of os.environ updated
\* with overrides or {}; what it returns and what it leaves of its inputs.
create_environment_dict(overrides, environ) ==
    LET o == IF overrides.type = "none" THEN <<>> ELSE overrides.items
    IN [ result |-> update(environ, o),
         environ |-> environ,
         overrides |-> overrides ]

\* ---------------------------------------------------------------- the helper
NoCred == [tag |-> "none"]
Cred(username, secret) == [tag |-> "cred", Username |-> username, Secret |-> secret]

\* The servers the helper keeps credentials for, in a fixed order.
RECURSIVE Stored(_, _)
Stored(kc, i) ==
    IF i > NumServers THEN <<>>
    ELSE (IF kc[ServerName(i)] # NoCred THEN <<ServerName(i)>> ELSE <<>>)
         \o Stored(kc, i + 1)

HelperMessage(text) == [type |-> "bytes", form |-> "text", v |-> <<text>>]

\* The record a helper prints for get.
Record(server, username, secret) ==
    encode(dumps(<< [key |-> <<"ServerURL">>, value |-> server],
                    [key |-> <<"Username">>, value |-> username],
                    [key |-> <<"Secret">>, value |-> secret] >>))

\* A helper's get: for a server it has nothing for, docker-credential-pass
\* prints an empty record and the other helpers exit non-zero.
HelperGet(program, server, kc) ==
    IF kc[server] # NoCred
    THEN [ returncode |-> 0, keychain |-> kc,
           output |-> Record(server, kc[server].Username, kc[server].Secret) ]
    ELSE IF program = <<PROGRAM_PREFIX, "pass">>
    THEN [ returncode |-> 0, keychain |-> kc,
           output |-> Record(server, <<>>, <<>>) ]
    ELSE [ returncode |-> 1, keychain |-> kc,
           output |-> HelperMessage("credentials not found in native keychain") ]

\* A helper's store of the record c.
HelperStore(c, kc) ==
    [ returncode |-> 0,
      keychain |-> [kc EXCEPT ![c[<<"ServerURL">>]] =
                       Cred(c[<<"Username">>], c[<<"Secret">>])],
      output |-> HelperMessage("") ]

\* A helper's list: the usernames by server.
HelperList(servers, kc) ==
    [ returncode |-> 0, keychain |-> kc,
      output |-> encode(dumps([i \in 1..Len(servers) |->
                    [key |-> servers[i], value |-> kc[servers[i]].Username]])) ]

\* A helper that implements the protocol, run as [exe, subcmd] with
\* data_input on its standard input: its exit code, its standard output and
\* the credentials it keeps afterwards.
Helper(program, subcmd, data_input, kc) ==
    CASE subcmd = "get" -> HelperGet(program, decode(data_input).v, kc)
      [] subcmd = "store" -> HelperStore(loads(decode(data_input)).items, kc)
      [] subcmd = "erase" ->
           [ returncode |-> 0,
             keychain |-> [kc EXCEPT ![decode(data_input).v] = NoCred],
             output |-> HelperMessage("") ]
      [] subcmd = "list" -> HelperList(Stored(kc, 1), kc)

\* What check_output does with a helper that exited: CalledProcessError for
\* a non-zero exit code, its standard output otherwise.
Exited(r) ==
    [ raised |-> IF r.returncode # 0 THEN "CalledProcessError" ELSE "none",
      errno |-> 0, strerror |-> "",
      output |-> r.output, keychain |-> r.keychain ]

\* subprocess.check_output([exe, subcmd], input, env): the file at exe is
\* gone (ENOENT) or may not be executed (EACCES), or the helper runs; a
\* broken helper exits non-zero whatever it is asked.
check_output(program, subcmd, data_input, env, h, kc) ==
    CASE h = "absent" ->
           [ raised |-> "OSError", errno |-> ENOENT,
             strerror |-> "No such file or directory",
             output |-> NoValue, keychain |-> kc ]
      [] h = "noexec" ->
           [ raised |-> "OSError", errno |-> 13,
             strerror |-> "Permission denied",
             output |-> NoValue, keychain |-> kc ]
      [] h = "broken" ->
           [ raised |-> "CalledProcessError", errno |-> 0, strerror |-> "",
             output |-> HelperMessage("error getting credentials"),
             keychain |-> kc ]
      [] h = "executable" -> Exited(Helper(program, subcmd, data_input, kc))

\* ---------------------------------------------------------------- _execute
\* What _execute leaves behind: its output or the exception it raised, what
\* check_output raised, how many times it was called and with which
\* environment, and the objects it could have changed.

\* An _execute that does not translate a failed launch other than ENOENT.
Translate_OnlyEnoent(r, program) ==
    CASE r.raised = "none" -> NoError
      [] r.raised = "CalledProcessError" -> process_store_error(r, program)
      [] r.raised = "OSError" ->
           IF r.errno = ENOENT
           THEN StoreError(NotInstalled(program))
           ELSE [class |-> "OSError", message |-> <<r.strerror>>]

\* An _execute that does not check the helper's exit code.
Translate_NoCheck(r, program) ==
    CASE r.raised = "none" -> NoError
      [] r.raised = "CalledProcessError" -> NoError
      [] r.raised = "OSError" ->
           IF r.errno = ENOENT
           THEN StoreError(NotInstalled(program))
           ELSE StoreError(<<"Unexpected OS error \"", r.strerror,
                             "\", errno=", ToString(r.errno)>>)

\* _execute, lines 84-94: the exception raised for one of check_output.
Translate(r, program) ==
    CASE r.raised = "none" -> NoError
      [] r.raised = "CalledProcessError" -> process_store_error(r, program)
      [] r.raised = "OSError" ->
           IF r.errno = ENOENT
           THEN StoreError(NotInstalled(program))
           ELSE StoreError(<<"Unexpected OS error \"", r.strerror,
                             "\", errno=", ToString(r.errno)>>)

\* _execute, lines 74-77: self.exe is None.
NotLaunched(st, kc, environ) ==
    [ output |-> NoValue, error |-> StoreError(NotInstalled(st.program)),
      raised |-> "none", errno |-> 0, strerror |-> "",
      launched |-> 0, env |-> NoneEnv, keychain |-> kc, store |-> st,
      os_environ |-> environ ]

\* An _execute that launches the helper a second time when the first launch
\* failed.
Launched_Retry(st, e, r) ==
    [ output |-> r.output, error |-> Translate(r, st.program),
      raised |-> r.raised, errno |-> r.errno, strerror |-> r.strerror,
      launched |-> IF r.raised = "none" THEN 1 ELSE 2,
      env |-> [type |-> "dict", items |-> e.result],
      keychain |-> r.keychain,
      store |-> [st EXCEPT !.environment = e.overrides],
      os_environ |-> e.environ ]

\* _execute, lines 78-95, after create_environment_dict gave e and the one
\* call of check_output ended as r.
Launched(st, e, r) ==
    [ output |-> r.output, error |-> Translate(r, st.program),
      raised |-> r.raised, errno |-> r.errno, strerror |-> r.strerror,
      launched |-> 1, env |-> [type |-> "dict", items |-> e.result],
      keychain |-> r.keychain,
      store |-> [st EXCEPT !.environment = e.overrides],
      os_environ |-> e.environ ]

\* _execute, lines 79-83: check_output with the environment e.
Launch(st, subcmd, data_input, h, kc, e) ==
    Launched(st, e, check_output(st.program, subcmd, data_input, e.result, h, kc))

\* An _execute that looks the helper up again instead of using self.exe.
execute_Rewhich(st, subcmd, data_input, h, kc, environ) ==
    IF which(st.program, h) = NoPath
    THEN NotLaunched(st, kc, environ)
    ELSE Launch(st, subcmd, data_input, h, kc,
                create_environment_dict(st.environment, environ))

\* Store._execute, lines 73-95: no launch when self.exe is None; otherwise
\* one check_output with the environment of create_environment_dict, whose
\* CalledProcessError and OSError become StoreErrors.
execute(st, subcmd, data_input, h, kc, environ) ==
    IF st.exe = NoPath
    THEN NotLaunched(st, kc, environ)
    ELSE Launch(st, subcmd, data_input, h, kc,
                create_environment_dict(st.environment, environ))

\* ---------------------------------------------------------------- get, store, erase, list
\* What a call of a Store method leaves behind: what _execute left, the
\* value returned or the exception raised, and whether the helper's output
\* was parsed.
Outcome(x, value, error, parsed) ==
    [ value |-> value, error |-> error, parsed |-> parsed,
      output |-> x.output, raised |-> x.raised, errno |-> x.errno,
      strerror |-> x.strerror,
      launched |-> x.launched, env |-> x.env, keychain |-> x.keychain,
      store |-> x.store, os_environ |-> x.os_environ ]

\* An exception of _execute leaves the method.
Raised(x) == Outcome(x, NoValue, x.error, FALSE)

\* get, lines 32-33, and erase, lines 63-64.
ServerBytes(server) ==
    IF ~isinstance(server, "bytes") THEN encode(server) ELSE server

\* A get that returns whatever record the helper printed.
get_result_NoEmptyCheck(st, x, result) ==
    Outcome(x, result, NoError, TRUE)

\* A get that rejects a record when either field is empty.
get_result_EitherEmpty(st, x, result) ==
    IF result.items[<<"Username">>] = <<>> \/ result.items[<<"Secret">>] = <<>>
    THEN Outcome(x, NoValue,
                 CredentialsNotFound(<<"No matching credentials in ">>
                                     \o st.program), TRUE)
    ELSE Outcome(x, result, NoError, TRUE)

\* Store.get, lines 41-46: the parsed result is checked and returned.
get_result(st, x, result) ==
    IF result.items[<<"Username">>] = <<>> /\ result.items[<<"Secret">>] = <<>>
    THEN Outcome(x, NoValue,
                 CredentialsNotFound(<<"No matching credentials in ">>
                                     \o st.program), TRUE)
    ELSE Outcome(x, result, NoError, TRUE)

\* json.loads raises JSONDecodeError on what is not a JSON document.
NotJson(x) ==
    Outcome(x, NoValue, [class |-> "JSONDecodeError", message |-> <<>>], TRUE)

\* Store.get, lines 34-35: _execute returned x.
get_data(st, x) ==
    IF x.error # NoError THEN Raised(x)
    ELSE IF x.output.form # "json" THEN NotJson(x)
    ELSE get_result(st, x, loads(decode(x.output)))

\* Store.get, lines 28-46.
Store_get(st, server, h, kc, environ) ==
    get_data(st, execute(st, "get", ServerBytes(server), h, kc, environ))

\* A store that sends the username as the secret too.
store_input_NoSecret(server, username, secret) ==
    encode(dumps(<< [key |-> <<"ServerURL">>, value |-> server.v],
                    [key |-> <<"Username">>, value |-> username],
                    [key |-> <<"Secret">>, value |-> username] >>))

\* Store.store, lines 52-56: data_input.
store_input(server, username, secret) ==
    encode(dumps(<< [key |-> <<"ServerURL">>, value |-> server.v],
                    [key |-> <<"Username">>, value |-> username],
                    [key |-> <<"Secret">>, value |-> secret] >>))

\* Store.store, line 57: what _execute returned is returned.
store_data(x) ==
    IF x.error # NoError THEN Raised(x)
    ELSE Outcome(x, x.output, NoError, FALSE)

\* Store.store, lines 48-57.
Store_store(st, server, username, secret, h, kc, environ) ==
    store_data(execute(st, "store", store_input(server, username, secret),
                       h, kc, environ))

\* Store.erase, line 65: nothing is returned.
erase_data(x) ==
    IF x.error # NoError THEN Raised(x)
    ELSE Outcome(x, NoValue, NoError, FALSE)

\* Store.erase, lines 59-65.
Store_erase(st, server, h, kc, environ) ==
    erase_data(execute(st, "erase", ServerBytes(server), h, kc, environ))

\* Store.list, line 71.
list_data(x) ==
    IF x.error # NoError THEN Raised(x)
    ELSE IF x.output.form # "json" THEN NotJson(x)
    ELSE Outcome(x, loads(decode(x.output)), NoError, TRUE)

\* Store.list, lines 67-71.
Store_list(st, h, kc, environ) ==
    list_data(execute(st, "list", NoValue, h, kc, environ))

\* ---------------------------------------------------------------- operations in progress
\* No operation is in progress.
IdleOp ==
    [ state |-> "Idle", name |-> "none", server |-> NoValue,
      username |-> <<>>, secret |-> <<>>, value |-> NoValue,
      error |-> NoError, parsed |-> FALSE, output |-> NoValue,
      raised |-> "none", errno |-> 0, strerror |-> "", launched |-> 0,
      env |-> NoneEnv ]

NotWritten == [tag |-> "none"]
Erased == [tag |-> "erased"]

\* No Store has been made.
InitStore ==
    /\ os_environ = [k \in EnvKeys |-> "a"]
    /\ helper = "executable"
    /\ keychain = [s \in ServerNames |-> NoCred]
    /\ store = NoStore
    /\ op = IdleOp
    /\ written = [s \in ServerNames |-> NotWritten]

\* ---------------------------------------------------------------- check_resource
\* Number of distinct resource ids.
NumIds == 2

\* A dict is a function from its keys; a call's **kwargs is one too.
dict(items) == [type |-> "dict", items |-> items]
dict_get(d, key, default) ==
    IF key \in DOMAIN d.items THEN d.items[key] ELSE default
\* kwargs.get(key): None when the keyword was not given.
kwargs_get(kwargs, key) == IF key \in DOMAIN kwargs THEN kwargs[key] ELSE NoValue
\* kwargs after kwargs.pop(key).
kwargs_pop(kwargs, key) == [k \in DOMAIN kwargs \ {key} |-> kwargs[k]]

\* Python's truth value of None, a str, a dict, a bool, an int, a list and
\* a tuple.
Truthy(x) ==
    CASE isinstance(x, "none") -> FALSE
      [] isinstance(x, "str") -> x.v # <<>>
      [] isinstance(x, "dict") -> DOMAIN x.items # {}
      [] isinstance(x, "bool") -> x.v
      [] isinstance(x, "int") -> x.v # 0
      [] isinstance(x, "list") -> x.v # <<>>
      [] isinstance(x, "tuple") -> x.v # <<>>

\* The ids of resources, and what a caller may pass for one.
ResourceId(i) == str([j \in 1..i |-> "c"])
ResourceIds == { ResourceId(i) : i \in 1..NumIds }
IdValues == { NoValue, str(<<>>) } \cup ResourceIds
IdDicts ==
    { dict(d) : d \in UNION { [ks -> IdValues] : ks \in SUBSET {"Id", "ID"} } }
    \cup { dict([d EXCEPT !["Name"] = ResourceId(1)]) :
             d \in UNION { [ks \cup {"Name"} -> IdValues] :
                              ks \in SUBSET {"Id", "ID"} } }
ResourceArgs == IdValues \cup IdDicts

\* The name check_resource is given, and another keyword of the method.
ResourceName == "container"
Keywords(resource_name) ==
    UNION { [ks -> ResourceArgs] : ks \in SUBSET {resource_name} }
WithSignal(kwargs) ==
    [k \in DOMAIN kwargs \cup {"signal"} |->
        IF k = "signal" THEN str(<<"K">>) ELSE kwargs[k]]

NullResource(message) == [class |-> "NullResource", message |-> message]

\* The wrapped method f(self, resource_id, *args, **kwargs): its request.
NoRequest == [sent |-> FALSE]
method(resource_id, args, kwargs) ==
    [sent |-> TRUE, resource_id |-> resource_id, args |-> args,
     kwargs |-> kwargs]

\* Lines 12-13: the keyword is taken when no positional id was given.
Keyword(resource_name, resource_id, kwargs) ==
    IF resource_id = NoValue /\ Truthy(kwargs_get(kwargs, resource_name))
    THEN [resource_id |-> kwargs[resource_name],
          kwargs |-> kwargs_pop(kwargs, resource_name)]
    ELSE [resource_id |-> resource_id, kwargs |-> kwargs]

\* Lines 14-15: a dict stands for its 'Id', or else its 'ID'.
IdOf(resource_id) ==
    IF isinstance(resource_id, "dict")
    THEN dict_get(resource_id, "Id", dict_get(resource_id, "ID", NoValue))
    ELSE resource_id

\* Lines 16-20 on the id, with a check that lets the empty string through.
checked_NoneOnly(resource_id, args, kwargs) ==
    IF resource_id = NoValue
    THEN [request |-> NoRequest,
          error |-> NullResource(<<"Resource ID was not provided">>)]
    ELSE [request |-> method(resource_id, args, kwargs), error |-> NoError]

\* Lines 16-20: raise NullResource, or call f.
checked(resource_id, args, kwargs) ==
    IF ~Truthy(resource_id)
    THEN [request |-> NoRequest,
          error |-> NullResource(<<"Resource ID was not provided">>)]
    ELSE [request |-> method(resource_id, args, kwargs), error |-> NoError]

\* wrapped that reads the keyword without popping it.
wrapped_NoPop(resource_name, resource_id, args, kwargs) ==
    checked(IdOf(Keyword(resource_name, resource_id, kwargs).resource_id),
            args, kwargs)

\* check_resource(resource_name)(f)(self, resource_id, *args, **kwargs).
wrapped(resource_name, resource_id, args, kwargs) ==
    checked(IdOf(Keyword(resource_name, resource_id, kwargs).resource_id),
            args, Keyword(resource_name, resource_id, kwargs).kwargs)

\* ---------------------------------------------------------------- API versions
\* Number of entries of a ports list.
MaxPorts == 2

int(n) == [type |-> "int", v |-> n]
bool(b) == [type |-> "bool", v |-> b]
list(seq) == [type |-> "list", v |-> seq]
tuple(seq) == [type |-> "tuple", v |-> seq]

\* An API version 'major.minor' is the pair of its numbers.
MinorVersions == {21, 24, 25, 28, 29, 30, 39, 40, 41}
Versions == { <<1, m>> : m \in MinorVersions }
\* utils.version_lt(v1, v2), utils.version_gte(v1, v2): versions compare by
\* their numbers, major first.
version_lt(v1, v2) == v1[1] < v2[1] \/ (v1[1] = v2[1] /\ v1[2] < v2[2])
version_gte(v1, v2) == ~version_lt(v1, v2)

\* str(n) of a natural number, and the text 'major.minor' of a version.
Digit(d) == <<"0", "1", "2", "3", "4", "5", "6", "7", "8", "9">>[d + 1]
RECURSIVE Decimal(_)
Decimal(n) ==
    IF n < 10 THEN << Digit(n) >> ELSE Decimal(n \div 10) \o << Digit(n % 10) >>
VersionText(v) == Decimal(v[1]) \o <<".">> \o Decimal(v[2])

InvalidVersion(message) == [class |-> "InvalidVersion", message |-> message]
IndexError(message) == [class |-> "IndexError", message |-> message]

\* A construction that raised, and one that built the dict items.
Failed(error) == [error |-> error, items |-> <<>>]
Built(items) == [error |-> NoError, items |-> items]

\* ---------------------------------------------------------------- ContainerConfig
\* The port definitions of a ports list: a bare port, a tuple of a port, of
\* a port and a protocol, of three elements, and the empty tuple.
PortNumbers == {8, 80}
Protos == { str(<<"t", "c", "p">>), str(<<"u", "d", "p">>) }
PortDefinitions ==
    { int(p) : p \in PortNumbers }
    \cup { tuple(<< int(p) >>) : p \in PortNumbers }
    \cup { tuple(<< int(p), proto >>) : p \in PortNumbers, proto \in Protos }
    \cup { tuple(<< int(8), str(<<"u", "d", "p">>), str(<<"x">>) >>), tuple(<<>>) }
PortLists ==
    { list(seq) : seq \in UNION { [1..n -> PortDefinitions] : n \in 0..MaxPorts } }

\* Lines 725-730: the port and the protocol of a port definition.
PortOf(port_definition) ==
    IF isinstance(port_definition, "tuple") THEN port_definition.v[1]
    ELSE port_definition

\* The protocol taken from the last element of every tuple.
ProtoOf_LastOfTuple(port_definition) ==
    IF isinstance(port_definition, "tuple")
    THEN port_definition.v[Len(port_definition.v)]
    ELSE str(<<"t", "c", "p">>)

ProtoOf(port_definition) ==
    IF isinstance(port_definition, "tuple") /\ Len(port_definition.v) = 2
    THEN port_definition.v[2]
    ELSE str(<<"t", "c", "p">>)

\* f'{port}/{proto}': an int is formatted in decimal, a str as it is.
Format(x) == IF isinstance(x, "int") THEN Decimal(x.v) ELSE x.v
PortKey(port, proto) == Format(port) \o <<"/">> \o Format(proto)

\* Lines 723-732: the loop over the port definitions, from exposed_ports.
RECURSIVE ExposePorts(_, _)
ExposePorts(definitions, exposed_ports) ==
    IF definitions = <<>> THEN exposed_ports
    ELSE ExposePorts(Tail(definitions),
                     (PortKey(PortOf(Head(definitions)),
                              ProtoOf(Head(definitions))) :> dict(<<>>))
                         @@ exposed_ports)

\* port_definition[0] of an empty tuple raises IndexError.
NoPortAt(ports) ==
    /\ isinstance(ports, "list")
    /\ \E i \in 1..Len(ports.v) : ports.v[i] = tuple(<<>>)

\* Lines 722-732: ports after the conversion.
exposed(ports) ==
    IF isinstance(ports, "list") THEN dict(ExposePorts(ports.v, <<>>))
    ELSE ports

\* attach_stdin that does not look at detach.
attach_stdin_Detached(detach, stdin_open) == Truthy(stdin_open)

\* Lines 746-757: attach_stdout and attach_stderr; attach_stdin and
\* stdin_once.
attach_stdout(detach) == ~Truthy(detach)
attach_stdin(detach, stdin_open) == ~Truthy(detach) /\ Truthy(stdin_open)

\* The arguments of ContainerConfig that are followed here; the others keep
\* their defaults and fill keys of their own.
ContainerArgs ==
    [ kind : {"ContainerConfig"}, version : Versions, detach : {bool(b) : b \in BOOLEAN},
      stdin_open : {bool(b) : b \in BOOLEAN},
      ports : {NoValue} \cup PortLists,
      stop_timeout : {NoValue, int(10)} ]

\* ContainerConfig.__init__: lines 693-696, 722-732, 746-785.
ContainerConfig(a) ==
    IF a.stop_timeout # NoValue /\ version_lt(a.version, <<1, 25>>)
    THEN Failed(InvalidVersion(
             <<"stop_timeout was only introduced in API version 1.25">>))
    ELSE IF NoPortAt(a.ports)
    THEN Failed(IndexError(<<"tuple index out of range">>))
    ELSE Built([ ExposedPorts |-> exposed(a.ports),
                 OpenStdin |-> a.stdin_open,
                 StdinOnce |-> bool(attach_stdin(a.detach, a.stdin_open)),
                 AttachStdin |-> bool(attach_stdin(a.detach, a.stdin_open)),
                 AttachStdout |-> bool(attach_stdout(a.detach)),
                 AttachStderr |-> bool(attach_stdout(a.detach)),
                 StopTimeout |-> a.stop_timeout ])

\* ---------------------------------------------------------------- DeviceRequest
\* Number of entries of a device_requests list.
MaxRequests == 2

ValueError(message) == [class |-> "ValueError", message |-> message]
TypeError(message) == [class |-> "TypeError", message |-> message]
InvalidArgument(message) == [class |-> "InvalidArgument", message |-> message]

\* The names of the fields of a device request: the keyword, the key.
RequestFields ==
    << <<"driver", "Driver">>, <<"count", "Count">>,
       <<"device_ids", "DeviceIDs">>, <<"capabilities", "Capabilities">>,
       <<"options", "Options">> >>

\* Two values of the type of each field, and one of another type.
FieldValues ==
    << << str(<<"nvidia">>), str(<<"amd">>), int(7) >>,
       << int(1), int(2), str(<<"all">>) >>,
       << list(<< str(<<"0">>) >>), list(<< str(<<"1">>) >>), str(<<"0">>) >>,
       << list(<< list(<< str(<<"gpu">>) >>) >>), list(<<>>), str(<<"gpu">>) >>,
       << dict("k" :> str(<<"v">>)), dict(<<>>), list(<<>>) >> >>

\* Lines 183-187: kwargs.get(lower, kwargs.get(capitalised)).
Field(kwargs, names) ==
    IF names[1] \in DOMAIN kwargs THEN kwargs[names[1]]
    ELSE IF names[2] \in DOMAIN kwargs THEN kwargs[names[2]]
    ELSE NoValue

\* Lines 189-208: the default of each field and the type it must have.
FieldDefaults == << str(<<>>), int(0), list(<<>>), list(<<>>), dict(<<>>) >>
FieldTypes == << "str", "int", "list", "list", "dict" >>
FieldErrors ==
    << "DeviceRequest.driver must be a string",
       "DeviceRequest.count must be an integer",
       "DeviceRequest.device_ids must be a list",
       "DeviceRequest.capabilities must be a list",
       "DeviceRequest.options must be a dict" >>

\* A field left empty instead of given its default.
Defaulted_None(value, i) == value

Defaulted(value, i) == IF value = NoValue THEN FieldDefaults[i] ELSE value

WrongType(kwargs, i) ==
    /\ Field(kwargs, RequestFields[i]) # NoValue
    /\ ~isinstance(Field(kwargs, RequestFields[i]), FieldTypes[i])

\* DeviceRequest.__init__(**kwargs): lines 182-216.  The first field of a
\* wrong type raises ValueError.
DeviceRequest(kwargs) ==
    IF \E i \in 1..5 : WrongType(kwargs, i)
    THEN Failed(ValueError(
             << FieldErrors[CHOOSE i \in 1..5 :
                    /\ WrongType(kwargs, i)
                    /\ \A j \in 1..(i - 1) : ~WrongType(kwargs, j)] >>))
    ELSE Built([ k \in { RequestFields[i][2] : i \in 1..5 } |->
                   Defaulted(
                       Field(kwargs,
                             RequestFields[CHOOSE i \in 1..5 :
                                              RequestFields[i][2] = k]),
                       CHOOSE i \in 1..5 : RequestFields[i][2] = k) ])

\* A DeviceRequest object.
DeviceRequestObject(items) == [type |-> "DeviceRequest", items |-> items]

\* The entries of a device_requests list: a dict that gives no field, one
\* field (under its keyword, its key, both, None under the keyword and a
\* value under the key, or a value of a wrong type), every field, another
\* key besides; and a DeviceRequest.
OneField(i) ==
    { dict(RequestFields[i][1] :> FieldValues[i][1]),
      dict(RequestFields[i][2] :> FieldValues[i][1]),
      dict(RequestFields[i][1] :> FieldValues[i][1]
           @@ RequestFields[i][2] :> FieldValues[i][2]),
      dict(RequestFields[i][1] :> NoValue
           @@ RequestFields[i][2] :> FieldValues[i][2]),
      dict(RequestFields[i][1] :> FieldValues[i][3]) }
RequestEntries ==
    UNION { OneField(i) : i \in 1..5 }
    \cup { dict(<<>>),
           dict([k \in { RequestFields[i][1] : i \in 1..5 } |->
                   FieldValues[CHOOSE i \in 1..5 : RequestFields[i][1] = k][1]]),
           dict([k \in { RequestFields[i][2] : i \in 1..5 } |->
                   FieldValues[CHOOSE i \in 1..5 : RequestFields[i][2] = k][2]]),
           dict("foo" :> int(1) @@ "Count" :> int(2)),
           DeviceRequestObject(DeviceRequest("count" :> int(-1)).items) }
RequestLists ==
    { list(seq) : seq \in UNION { [1..n -> RequestEntries] : n \in 0..MaxRequests } }

\* ---------------------------------------------------------------- HostConfig
\* host_config_type_error, host_config_version_error,
\* host_config_value_error, host_config_incompatible_error: lines 660-680.
TypeText(x) == "<class '" \o x.type \o "'>"
host_config_type_error(param, param_value, expected) ==
    TypeError(<< "Invalid type for ", param, " param: expected ", expected,
                 " but found ", TypeText(param_value) >>)
host_config_version_error(param, version, less_than) ==
    InvalidVersion(<< param, " param is not supported in API versions ",
                      IF less_than THEN "<" ELSE ">", " " >>
                   \o VersionText(version))
host_config_value_error(param, param_value) ==
    ValueError(<< "Invalid value for ", param, " param: " >> \o param_value.v)
host_config_incompatible_error(param, param_value, incompatible_param) ==
    InvalidArgument(<< "\"", param_value, "\" ", param,
                       " is incompatible with ", incompatible_param >>)

\* utils.convert_port_bindings(port_bindings): the converted bindings.
convert_port_bindings(port_bindings) ==
    [type |-> "dict", converted |-> port_bindings.items]

\* self[key] = value, unless an earlier statement raised.
Put(c, key, value) == Built((key :> value) @@ c.items)

\* Lines 310-313.
SetPidMode(c, a) ==
    IF c.error # NoError \/ ~Truthy(a.pid_mode) THEN c
    ELSE IF version_lt(a.version, <<1, 24>>) /\ a.pid_mode # str(<<"host">>)
    THEN Failed(host_config_value_error("pid_mode", a.pid_mode))
    ELSE Put(c, "PidMode", a.pid_mode)

\* Lines 336-337.
SetReadOnly(c, a) ==
    IF c.error # NoError \/ a.read_only = NoValue THEN c
    ELSE Put(c, "ReadonlyRootfs", a.read_only)

\* NetworkMode set only when a network_mode is given.
SetNetworkMode_NoDefault(c, a) ==
    IF c.error # NoError \/ ~Truthy(a.network_mode) THEN c
    ELSE Put(c, "NetworkMode", a.network_mode)

\* Lines 342-346.
SetNetworkMode(c, a) ==
    IF c.error # NoError THEN c
    ELSE IF a.network_mode = str(<<"host">>) /\ Truthy(a.port_bindings)
    THEN Failed(host_config_incompatible_error(
                    "network_mode", "host", "port_bindings"))
    ELSE Put(c, "NetworkMode",
             IF Truthy(a.network_mode) THEN a.network_mode
             ELSE str(<<"default">>))

\* Lines 398-399.
SetPortBindings(c, a) ==
    IF c.error # NoError \/ a.port_bindings = NoValue THEN c
    ELSE Put(c, "PortBindings", convert_port_bindings(a.port_bindings))

\* Lines 451-455.
SetCpuShares(c, a) ==
    IF c.error # NoError \/ ~Truthy(a.cpu_shares) THEN c
    ELSE IF ~isinstance(a.cpu_shares, "int")
    THEN Failed(host_config_type_error("cpu_shares", a.cpu_shares, "int"))
    ELSE Put(c, "CpuShares", a.cpu_shares)

\* Lines 573-576.
SetAutoRemove(c, a) ==
    IF c.error # NoError \/ ~Truthy(a.auto_remove) THEN c
    ELSE IF version_lt(a.version, <<1, 25>>)
    THEN Failed(host_config_version_error("auto_remove", <<1, 25>>, TRUE))
    ELSE Put(c, "AutoRemove", a.auto_remove)

\* init_path accepted at every version from 1.25.
SetInitPath_NoUpper(c, a) ==
    IF c.error # NoError \/ a.init_path = NoValue THEN c
    ELSE IF version_lt(a.version, <<1, 25>>)
    THEN Failed(host_config_version_error("init_path", <<1, 25>>, TRUE))
    ELSE Put(c, "InitPath", a.init_path)

\* Lines 588-595.
SetInitPath(c, a) ==
    IF c.error # NoError \/ a.init_path = NoValue THEN c
    ELSE IF version_lt(a.version, <<1, 25>>)
    THEN Failed(host_config_version_error("init_path", <<1, 25>>, TRUE))
    ELSE IF version_gte(a.version, <<1, 29>>)
    THEN Failed(host_config_version_error("init_path", <<1, 29>>, FALSE))
    ELSE Put(c, "InitPath", a.init_path)

\* Lines 629-632.
SetMounts(c, a) ==
    IF c.error # NoError \/ a.mounts = NoValue THEN c
    ELSE IF version_lt(a.version, <<1, 30>>)
    THEN Failed(host_config_version_error("mounts", <<1, 30>>, TRUE))
    ELSE Put(c, "Mounts", a.mounts)

\* Lines 650-654: the loop over device_requests, from the list made so far.
RECURSIVE ConvertRequests(_, _)
ConvertRequests(requests, made) ==
    IF requests = <<>> THEN Built(made)
    ELSE IF isinstance(Head(requests), "DeviceRequest")
    THEN ConvertRequests(Tail(requests), Append(made, Head(requests)))
    ELSE IF DeviceRequest(Head(requests).items).error # NoError
    THEN DeviceRequest(Head(requests).items)
    ELSE ConvertRequests(
             Tail(requests),
             Append(made,
                    DeviceRequestObject(DeviceRequest(Head(requests).items).items)))

\* Lines 643-654.
SetDeviceRequests(c, a) ==
    IF c.error # NoError \/ a.device_requests = NoValue THEN c
    ELSE IF version_lt(a.version, <<1, 40>>)
    THEN Failed(host_config_version_error("device_requests", <<1, 40>>, TRUE))
    ELSE IF ~isinstance(a.device_requests, "list")
    THEN Failed(host_config_type_error(
                    "device_requests", a.device_requests, "list"))
    ELSE IF ConvertRequests(a.device_requests.v, <<>>).error # NoError
    THEN ConvertRequests(a.device_requests.v, <<>>)
    ELSE Put(c, "DeviceRequests",
             list(ConvertRequests(a.device_requests.v, <<>>).items))

\* HostConfig.__init__ on the arguments followed here, in the order of its
\* statements; an argument left at its default adds no key.
HostConfig(a) ==
    SetDeviceRequests(
      SetMounts(
        SetInitPath(
          SetAutoRemove(
            SetCpuShares(
              SetPortBindings(
                SetNetworkMode(
                  SetReadOnly(
                    SetPidMode(Built(<<>>), a), a), a), a), a), a), a), a), a)

\* The arguments of HostConfig that are followed here, and their defaults.
HostDefaults ==
    [ kind |-> "HostConfig", version |-> <<1, 41>>, pid_mode |-> NoValue,
      read_only |-> NoValue, network_mode |-> NoValue,
      port_bindings |-> NoValue, cpu_shares |-> NoValue,
      auto_remove |-> bool(FALSE), init_path |-> NoValue, mounts |-> NoValue,
      device_requests |-> NoValue ]

\* Argument sets over all the arguments but device_requests, which is left
\* out, empty or of one entry; and argument sets of device_requests alone.
HostArgs ==
    [ kind : {"HostConfig"}, version : Versions,
      pid_mode : { NoValue, str(<<"host">>), str(<<"container:c">>) },
      read_only : { NoValue, bool(FALSE), bool(TRUE) },
      network_mode : { NoValue, str(<<>>), str(<<"host">>), str(<<"bridge">>) },
      port_bindings : { NoValue, dict(<<>>), dict(1111 :> 2222) },
      cpu_shares : { NoValue, int(0), int(512), str(<<"512">>) },
      auto_remove : { bool(FALSE), bool(TRUE) },
      init_path : { NoValue, str(<<"/init">>) },
      mounts : { NoValue, list(<<>>) },
      device_requests : { NoValue, list(<<>>),
                          list(<< dict("count" :> int(1)) >>) } ]
    \cup { [ HostDefaults EXCEPT !.version = v, !.device_requests = r ] :
             v \in Versions, r \in RequestLists }

\* ---------------------------------------------------------------- Model
\* Model and classes derived from it, with the base class of each.
Classes == { "Model", "Container", "Image", "Sandbox" }
BaseOf ==
    [ Model |-> "object", Container |-> "Model", Image |-> "Model",
      Sandbox |-> "Container" ]
RECURSIVE issubclass(_, _)
issubclass(c, d) ==
    \/ c = d
    \/ c # "object" /\ issubclass(BaseOf[c], d)

\* Model(attrs): lines 17-27.  attrs=None becomes {}.
Model(class, attrs) ==
    [ class |-> class, attrs |-> IF attrs = NoValue THEN dict(<<>>) ELSE attrs ]
AttrDicts ==
    { NoValue }
    \cup { dict(d) : d \in UNION { [ks -> ResourceIds] :
                                     ks \in SUBSET {"Id", "Name"} } }
Models == { Model(class, attrs) : class \in Classes, attrs \in AttrDicts }

\* Model.id: self.attrs.get(self.id_attribute), with id_attribute = 'Id'.
id(self) == dict_get(self.attrs, "Id", NoValue)

\* __eq__ that compares the ids only.
eq_IdOnly(self, other) == id(self) = id(other)

\* Model.__eq__(self, other): lines 32-33.
eq(self, other) == issubclass(other.class, self.class) /\ id(self) = id(other)

\* Model.__hash__(self): lines 35-36.  The hash of a str is a function of
\* its text, f"{self.__class__.__name__}:{self.id}"; None is formatted as
\* 'None'.
hash(self) ==
    << self.class, ":" >>
    \o (IF id(self) = NoValue THEN <<"None">> ELSE id(self).v)

\* a == b: Python asks the right operand first when its class is a proper
\* subclass of the left operand's class, and the left operand otherwise;
\* __eq__ never returns NotImplemented here.
Equal(a, b) ==
    IF a.class # b.class /\ issubclass(b.class, a.class) THEN eq(b, a)
    ELSE eq(a, b)

\* ---------------------------------------------------------------- nothing called yet
\* No check_resource method has been called.
NoCall == [state |-> "none"]
\* No configuration object has been constructed.
NotBuilt == [state |-> "none"]
\* No two models have been compared.
NotCompared == [state |-> "none"]

InitTypes ==
    /\ invoked = NoCall
    /\ built = NotBuilt
    /\ compared = NotCompared

\* ---------------------------------------------------------------- initial states
InitThreads ==
    /\ pc = [t \in Threads |-> "idle"]
    /\ url = [t \in Threads |-> None]
    /\ pool = [t \in Threads |-> None]
    /\ evicted = [t \in Threads |-> None]
    /\ conn = [t \in Threads |-> None]
    /\ lent = [t \in Threads |-> FALSE]

\* Nothing has called connect(); the socket is listened on.
InitDial ==
    /\ peer = "listening"
    /\ calls = [t \in Threads |-> <<>>]
    /\ raised = [t \in Threads |-> "none"]
    /\ socks = [t \in Threads |-> "none"]

\* After UnixHTTPAdapter(DefaultSocketUrl, pool_connections=n, max_pool_size=m).
Init ==
    /\ socket_url = DefaultSocketUrl
    /\ \E n \in 1..(NumUrls - 1) :
          adapter = UnixHTTPAdapter(socket_url, DefaultTimeout, n, MaxPoolSize)
    /\ pools = <<>>
    /\ lock = None
    /\ heap = [p \in PoolIds |-> NoPool]
    /\ conns = [k \in ConnIds |-> NoConn]
    /\ InitThreads
    /\ recency = <<>>
    /\ before = <<>>
    /\ seen = {}
    /\ InitDial
    /\ InitStore
    /\ InitTypes

\* ---------------------------------------------------------------- get_connection
\* A get_connection that does not take the lock.
LockFree_NoLock(t) == TRUE

\* with self.pools.lock: the RLock is free, or this thread owns it.
LockFree(t) == lock = None \/ lock = t

\* Lines 72-75: the call enters the with block and looks the url up; a hit
\* returns the pool, which leaves the with block.
Lookup(t, u) ==
    /\ pc[t] = "idle"
    /\ LockFree(t)
    /\ url' = [url EXCEPT ![t] = u]
    /\ LET got == get(pools, u)
       IN /\ pools' = got.container
          /\ pool' = [pool EXCEPT ![t] = got.item]
          /\ IF got.item # None
             THEN /\ pc' = [pc EXCEPT ![t] = "done"]
                  /\ lock' = None
             ELSE /\ pc' = [pc EXCEPT ![t] = "miss"]
                  /\ lock' = t
    /\ recency' = Append(SelectSeq(recency, LAMBDA v : v # u), u)
    /\ UNCHANGED << socket_url, adapter, heap, conns, evicted, conn, lent,
                    before, seen >>
    /\ UNCHANGED << dialVars, storeVars, typeVars >>

\* Insert that leaves the with block before the evicted pool is disposed of.
Insert_ReleaseFirst(t) ==
    /\ pc[t] = "miss"
    /\ LET p == FreePool(heap, url[t])
           set == setitem(pools, adapter.pool_connections, url[t], p)
       IN /\ heap' = [heap EXCEPT ![p] = NewPool(adapter, url[t])]
          /\ pools' = set.container
          /\ pool' = [pool EXCEPT ![t] = p]
          /\ evicted' = [evicted EXCEPT ![t] = set.evicted_value]
          /\ IF set.evicted_value # None
             THEN /\ pc' = [pc EXCEPT ![t] = "dispose"]
                  /\ lock' = None
                  /\ before' = pools
             ELSE /\ pc' = [pc EXCEPT ![t] = "done"]
                  /\ lock' = None
                  /\ before' = <<>>
    /\ UNCHANGED << socket_url, adapter, conns, url, conn, lent, recency,
                    seen >>
    /\ UNCHANGED << dialVars, storeVars, typeVars >>

\* Lines 77-83: the pool is constructed and self.pools[url] = pool stores it
\* (RecentlyUsedContainer.__setitem__ up to the call of dispose_func); with
\* nothing evicted the with block ends and the pool is returned.
Insert(t) ==
    /\ pc[t] = "miss"
    /\ LET p == FreePool(heap, url[t])
           set == setitem(pools, adapter.pool_connections, url[t], p)
       IN /\ heap' = [heap EXCEPT ![p] = NewPool(adapter, url[t])]
          /\ pools' = set.container
          /\ pool' = [pool EXCEPT ![t] = p]
          /\ evicted' = [evicted EXCEPT ![t] = set.evicted_value]
          /\ IF set.evicted_value # None
             THEN /\ pc' = [pc EXCEPT ![t] = "dispose"]
                  /\ lock' = lock
                  /\ before' = pools
             ELSE /\ pc' = [pc EXCEPT ![t] = "done"]
                  /\ lock' = None
                  /\ before' = <<>>
    /\ UNCHANGED << socket_url, adapter, conns, url, conn, lent, recency,
                    seen >>
    /\ UNCHANGED << dialVars, storeVars, typeVars >>

\* __setitem__'s dispose_func(evicted_value): lambda p: p.close(), line 67;
\* then the with block ends and the pool is returned (lines 81-83).
Dispose(t) ==
    /\ pc[t] = "dispose"
    /\ pc' = [pc EXCEPT ![t] = "done"]
    /\ lock' = None
    /\ evicted' = [evicted EXCEPT ![t] = None]
    /\ LET r == close(heap, conns, evicted[t], "evict")
           g == Collect(r.heap, r.conns, pools, pool, evicted', conn)
       IN /\ heap' = g.heap
          /\ conns' = g.conns
    /\ recency' = SelectSeq(recency, LAMBDA v : v \in Keys(pools))
    /\ before' = <<>>
    /\ UNCHANGED << socket_url, adapter, pools, url, pool, conn, lent, seen >>
    /\ UNCHANGED << dialVars, storeVars, typeVars >>

\* The caller drops the pool it was given.
Forget(t) ==
    /\ pc[t] = "done"
    /\ conn[t] = None
    /\ pc' = [pc EXCEPT ![t] = "idle"]
    /\ pool' = [pool EXCEPT ![t] = None]
    /\ url' = [url EXCEPT ![t] = None]
    /\ LET r == Collect(heap, conns, pools, pool', evicted, conn)
       IN /\ heap' = r.heap
          /\ conns' = r.conns
    /\ UNCHANGED << socket_url, adapter, pools, lock, evicted, conn, lent,
                    recency, before, seen >>
    /\ UNCHANGED << dialVars, storeVars, typeVars >>

NextCache ==
    \E t \in Threads :
        \/ \E u \in Urls : Lookup(t, u)
        \/ Insert(t)
        \/ Dispose(t)
        \/ Forget(t)

Spec == Init /\ [][NextCache]_vars

\* ---------------------------------------------------------------- pool operations
\* HTTPConnectionPool._get_conn on an open pool: self.pool.get(block=False)
\* takes the last slot put (LifoQueue); an empty queue (block is False) or a
\* None slot gives a new connection; a pooled connection found dropped by
\* the peer is closed and handed out again.
GetConn(t) ==
    /\ pc[t] = "done"
    /\ conn[t] = None
    /\ ~heap[pool[t]].closed
    /\ LET p == pool[t]
           q == heap[p].queue
           slot == IF q = <<>> THEN None ELSE q[Len(q)]
           rest == IF q = <<>> THEN q ELSE SubSeq(q, 1, Len(q) - 1)
       IN /\ heap' = [heap EXCEPT ![p].queue = rest]
          /\ IF slot = None
             THEN /\ \E k \in ConnIds : conns[k] = NoConn
                  /\ conn' = [conn EXCEPT ![t] = FreeConn(conns)]
                  /\ conns' = [conns EXCEPT ![FreeConn(conns)] = NewConn(heap, p)]
             ELSE /\ conn' = [conn EXCEPT ![t] = slot]
                  /\ \E dropped \in BOOLEAN :
                        /\ dropped => conns[slot].sock = "open"
                        /\ conns' = IF dropped THEN CloseConns(conns, {slot})
                                    ELSE conns
    /\ lent' = [lent EXCEPT ![t] = TRUE]
    /\ UNCHANGED << socket_url, adapter, pools, lock, pc, url, pool, evicted,
                    recency, before, seen >>
    /\ UNCHANGED << dialVars, storeVars, typeVars >>

\* _get_conn on a closed pool: self.pool is None, ClosedPoolError is raised
\* and the caller is left without the pool.
GetConnClosed(t) ==
    /\ pc[t] = "done"
    /\ conn[t] = None
    /\ heap[pool[t]].closed
    /\ pc' = [pc EXCEPT ![t] = "idle"]
    /\ pool' = [pool EXCEPT ![t] = None]
    /\ url' = [url EXCEPT ![t] = None]
    /\ LET r == Collect(heap, conns, pools, pool', evicted, conn)
       IN /\ heap' = r.heap
          /\ conns' = r.conns
    /\ UNCHANGED << socket_url, adapter, pools, lock, evicted, conn, lent,
                    recency, before, seen >>
    /\ UNCHANGED << dialVars, storeVars, typeVars >>

\* UnixHTTPConnection.connect on the connection the thread was lent, with
\* the socket listened on.
Connect(t) ==
    /\ conn[t] # None
    /\ lent[t]
    /\ conns[conn[t]].sock = "none"
    /\ conns' = [conns EXCEPT ![conn[t]] = connect(@, "listening").conn]
    /\ UNCHANGED << socket_url, adapter, pools, lock, heap, pc, url, pool,
                    evicted, conn, lent, recency, before, seen >>
    /\ UNCHANGED << dialVars, storeVars, typeVars >>

\* _put_conn(conn) by the thread that got conn, also when it has already put
\* it back once.
PutConn(t) ==
    /\ conn[t] # None
    /\ LET r == put_conn(heap, conns, pool[t], conn[t])
       IN /\ heap' = r.heap
          /\ conns' = r.conns
    /\ lent' = [lent EXCEPT ![t] = FALSE]
    /\ UNCHANGED << socket_url, adapter, pools, lock, pc, url, pool, evicted,
                    conn, recency, before, seen >>
    /\ UNCHANGED << dialVars, storeVars, typeVars >>

\* The thread lets go of a connection it has put back.
DropConn(t) ==
    /\ conn[t] # None
    /\ ~lent[t]
    /\ conn' = [conn EXCEPT ![t] = None]
    /\ LET r == Collect(heap, conns, pools, pool, evicted, conn')
       IN /\ heap' = r.heap
          /\ conns' = r.conns
    /\ UNCHANGED << socket_url, adapter, pools, lock, pc, url, pool, evicted,
                    lent, recency, before, seen >>
    /\ UNCHANGED << dialVars, storeVars, typeVars >>

\* pool.close() by a thread that holds the pool.
Close(t) ==
    /\ pc[t] = "done"
    /\ heap[pool[t]].closes < MaxCloses
    /\ LET r == close(heap, conns, pool[t], "user")
       IN /\ heap' = r.heap
          /\ conns' = r.conns
    /\ UNCHANGED << socket_url, adapter, pools, lock, pc, url, pool, evicted,
                    conn, lent, recency, before, seen >>
    /\ UNCHANGED << dialVars, storeVars, typeVars >>

NextPool ==
    \E t \in Threads :
        \/ GetConn(t)
        \/ GetConnClosed(t)
        \/ Connect(t)
        \/ PutConn(t)
        \/ DropConn(t)
        \/ Close(t)

\* Every thread has been given the pool of the first url by get_connection.
InitPool ==
    /\ socket_url = DefaultSocketUrl
    /\ \E m \in 1..MaxPoolSize :
          adapter = UnixHTTPAdapter(socket_url, DefaultTimeout, 1, m)
    /\ pools = << [key |-> 1, value |-> PoolLabel(1, 1)] >>
    /\ lock = None
    /\ heap = [p \in PoolIds |-> IF p = PoolLabel(1, 1)
                                 THEN NewPool(adapter, 1) ELSE NoPool]
    /\ conns = [k \in ConnIds |-> NoConn]
    /\ pc = [t \in Threads |-> "done"]
    /\ url = [t \in Threads |-> 1]
    /\ pool = [t \in Threads |-> PoolLabel(1, 1)]
    /\ evicted = [t \in Threads |-> None]
    /\ conn = [t \in Threads |-> None]
    /\ lent = [t \in Threads |-> FALSE]
    /\ recency = <<1>>
    /\ before = <<>>
    /\ seen = {}
    /\ InitDial
    /\ InitStore
    /\ InitTypes

SpecPool == InitPool /\ [][NextPool]_vars

NextLend ==
    \E t \in Threads :
        \/ GetConn(t)
        \/ GetConnClosed(t)
        \/ Connect(t)
        \/ PutConn(t)
        \/ DropConn(t)

SpecLend == Init /\ [][NextCache \/ NextLend]_vars

\* ---------------------------------------------------------------- callers of connect
\* UnixHTTPConnection.connect on the connection the thread was lent, with
\* whatever is at the path now.
ConnectTo(t) ==
    /\ conn[t] # None
    /\ lent[t]
    /\ conns[conn[t]].sock = "none"
    /\ LET r == connect(conns[conn[t]], peer)
       IN /\ conns' = [conns EXCEPT ![conn[t]] = r.conn]
          /\ calls' = [calls EXCEPT ![t] = r.calls]
          /\ raised' = [raised EXCEPT ![t] = r.raised]
          /\ socks' = [socks EXCEPT ![t] = r.socket]
    /\ UNCHANGED << socket_url, adapter, pools, lock, heap, pc, url, pool,
                    evicted, conn, lent, recency, before, seen, peer >>
    /\ UNCHANGED << storeVars, typeVars >>

\* The exception of a failed connect() is dropped, and with it the frame
\* and its local sock: the socket's finaliser closes it.  When this happens
\* is up to the caller and to the garbage collector.
Finalize(t) ==
    /\ socks[t] = "left"
    /\ socks' = [socks EXCEPT ![t] = "closed"]
    /\ UNCHANGED << transportVars, peer, calls, raised, storeVars, typeVars >>

\* The daemon starts or stops listening, or the socket file comes or goes.
PeerBecomes(p) ==
    /\ p # peer
    /\ peer' = p
    /\ UNCHANGED << transportVars, calls, raised, socks, storeVars, typeVars >>

NextConnect ==
    \/ \E t \in Threads :
          \/ GetConn(t)
          \/ ConnectTo(t)
          \/ Finalize(t)
    \/ \E p \in Peers : PeerBecomes(p)

\* Every thread has been given the pool of the first url, made by an adapter
\* with one of two timeouts; anything may be at the socket path.
InitConnect ==
    /\ socket_url = DefaultSocketUrl
    /\ \E tm \in {DefaultTimeout, DefaultTimeout \div 2} :
          adapter = UnixHTTPAdapter(socket_url, tm, 1, MaxPoolSize)
    /\ pools = << [key |-> 1, value |-> PoolLabel(1, 1)] >>
    /\ lock = None
    /\ heap = [p \in PoolIds |-> IF p = PoolLabel(1, 1)
                                 THEN NewPool(adapter, 1) ELSE NoPool]
    /\ conns = [k \in ConnIds |-> NoConn]
    /\ pc = [t \in Threads |-> "done"]
    /\ url = [t \in Threads |-> 1]
    /\ pool = [t \in Threads |-> PoolLabel(1, 1)]
    /\ evicted = [t \in Threads |-> None]
    /\ conn = [t \in Threads |-> None]
    /\ lent = [t \in Threads |-> FALSE]
    /\ recency = <<1>>
    /\ before = <<>>
    /\ seen = {}
    /\ peer \in Peers
    /\ calls = [t \in Threads |-> <<>>]
    /\ raised = [t \in Threads |-> "none"]
    /\ socks = [t \in Threads |-> "none"]
    /\ InitStore
    /\ InitTypes

SpecConnect == InitConnect /\ [][NextConnect]_vars

\* ---------------------------------------------------------------- request_url
\* A PreparedRequest: its url, split.  A string is a sequence of pieces here.
Requests ==
    { [ scheme |-> "http+unix", netloc |-> "localhost",
        path |-> <<"/containers/json">>, query |-> <<"all=1">> ],
      [ scheme |-> "http+unix", netloc |-> "localhost",
        path |-> <<"/version">>, query |-> <<>> ],
      [ scheme |-> "http+unix", netloc |-> "localhost",
        path |-> <<>>, query |-> <<>> ] }

\* The proxies argument: a mapping from a scheme (or "all") to a proxy url.
ProxyChoices ==
    { {},
      { [scheme |-> "http+unix", proxy |-> "http://proxy:3128"] },
      { [scheme |-> "all", proxy |-> "socks5://proxy:1080"] } }

\* PreparedRequest.path_url: the path, "/" when empty, then "?" and the
\* query when there is one.
path_url(request) ==
    (IF request.path = <<>> THEN <<"/">> ELSE request.path)
    \o (IF request.query # <<>> THEN <<"?">> \o request.query ELSE <<>>)

\* What HTTPAdapter.request_url of requests does: the whole url when a proxy
\* is selected for the request.
request_url_Proxied(request, proxies) ==
    IF \E e \in proxies : e.scheme \in {request.scheme, "all"}
    THEN <<request.scheme, "://", request.netloc>> \o path_url(request)
    ELSE path_url(request)

\* UnixHTTPAdapter.request_url, line 91.
request_url(request, proxies) == path_url(request)

RequestUrl(request, proxies) ==
    /\ adapter # NoAdapter
    /\ seen' = seen \cup { [ request |-> request, proxies |-> proxies,
                             result |-> request_url(request, proxies) ] }
    /\ UNCHANGED << socket_url, adapter, pools, lock, heap, conns, pc, url,
                    pool, evicted, conn, lent, recency, before >>
    /\ UNCHANGED << dialVars, storeVars, typeVars >>

\* ---------------------------------------------------------------- __init__
\* Before UnixHTTPAdapter(socket_url): any of the socket urls.
InitUrl ==
    /\ socket_url \in SocketUrls
    /\ adapter = NoAdapter
    /\ pools = <<>>
    /\ lock = None
    /\ heap = [p \in PoolIds |-> NoPool]
    /\ conns = [k \in ConnIds |-> NoConn]
    /\ InitThreads
    /\ recency = <<>>
    /\ before = <<>>
    /\ seen = {}
    /\ InitDial
    /\ InitStore
    /\ InitTypes

\* UnixHTTPAdapter.__init__, lines 57-69.
AdapterInit ==
    /\ adapter = NoAdapter
    /\ adapter' = UnixHTTPAdapter(socket_url, DefaultTimeout, NumUrls - 1,
                                  MaxPoolSize)
    /\ pools' = <<>>
    /\ UNCHANGED << socket_url, lock, heap, conns, pc, url, pool, evicted,
                    conn, lent, recency, before, seen >>
    /\ UNCHANGED << dialVars, storeVars, typeVars >>

NextUrl ==
    \/ AdapterInit
    \/ \E request \in Requests, proxies \in ProxyChoices :
          RequestUrl(request, proxies)

SpecUrl == InitUrl /\ [][NextUrl]_vars

\* ================================================================ credentials: callers
\* ---------------------------------------------------------------- callers of the Store
\* Store(program, environment)
StoreInit(program, environment) ==
    /\ store = NoStore
    /\ store' = StoreNew(program, environment, helper)
    /\ UNCHANGED << os_environ, helper, keychain, op, written >>
    /\ UNCHANGED << transportVars, dialVars, typeVars >>

\* A method of the Store is called.
Call(name, server, username, secret) ==
    /\ store # NoStore
    /\ op.state = "Idle"
    /\ op' = [IdleOp EXCEPT !.state = "Executing", !.name = name,
                            !.server = server, !.username = username,
                            !.secret = secret]
    /\ UNCHANGED << os_environ, helper, keychain, store, written >>
    /\ UNCHANGED << transportVars, dialVars, typeVars >>

CallGet(server) == Call("get", server, <<>>, <<>>)
CallStore(server, username, secret) == Call("store", server, username, secret)
CallErase(server) == Call("erase", server, <<>>, <<>>)
CallList == Call("list", NoValue, <<>>, <<>>)

\* The outcome r of the method is taken over.
Finish(r) ==
    /\ op' = [op EXCEPT !.state = IF r.error = NoError THEN "Succeeded"
                                  ELSE "Failed",
                        !.value = r.value, !.error = r.error,
                        !.parsed = r.parsed, !.output = r.output,
                        !.raised = r.raised, !.errno = r.errno,
                        !.strerror = r.strerror,
                        !.launched = r.launched, !.env = r.env]
    /\ keychain' = r.keychain
    /\ store' = r.store
    /\ os_environ' = r.os_environ
    /\ written' =
          IF r.error = NoError /\ op.name = "store"
          THEN [written EXCEPT ![op.server.v] = Cred(op.username, op.secret)]
          ELSE IF r.error = NoError /\ op.name = "erase"
          THEN [written EXCEPT ![IF isinstance(op.server, "bytes")
                                  THEN decode(op.server).v
                                  ELSE op.server.v] = Erased]
          ELSE written

\* The method called runs to its end: it returns or raises.
Execute ==
    /\ op.state = "Executing"
    /\ CASE op.name = "get" ->
              Finish(Store_get(store, op.server, helper, keychain, os_environ))
         [] op.name = "store" ->
              Finish(Store_store(store, op.server, op.username, op.secret,
                                 helper, keychain, os_environ))
         [] op.name = "erase" ->
              Finish(Store_erase(store, op.server, helper, keychain, os_environ))
         [] op.name = "list" ->
              Finish(Store_list(store, helper, keychain, os_environ))
    /\ UNCHANGED helper
    /\ UNCHANGED << transportVars, dialVars, typeVars >>

\* The caller has the result or the exception.
Return ==
    /\ op.state \in {"Succeeded", "Failed"}
    /\ op' = IdleOp
    /\ UNCHANGED << os_environ, helper, keychain, store, written >>
    /\ UNCHANGED << transportVars, dialVars, typeVars >>

\* The helper is installed, removed, made unexecutable or breaks.
HelperBecomes(h) ==
    /\ h # helper
    /\ helper' = h
    /\ UNCHANGED << os_environ, keychain, store, op, written >>
    /\ UNCHANGED << transportVars, dialVars, typeVars >>

\* os.environ[k] = v and del os.environ[k] by the program.
Setenv(k, v) ==
    /\ op.state = "Idle"
    /\ os_environ' = update(os_environ, [x \in {k} |-> v])
    /\ os_environ' # os_environ
    /\ UNCHANGED << helper, keychain, store, op, written >>
    /\ UNCHANGED << transportVars, dialVars, typeVars >>

Unsetenv(k) ==
    /\ op.state = "Idle"
    /\ k \in DOMAIN os_environ
    /\ os_environ' = [x \in DOMAIN os_environ \ {k} |-> os_environ[x]]
    /\ UNCHANGED << helper, keychain, store, op, written >>
    /\ UNCHANGED << transportVars, dialVars, typeVars >>

\* ---------------------------------------------------------------- initial states
\* No adapter has been made.
InitNoTransport ==
    /\ socket_url = DefaultSocketUrl
    /\ adapter = NoAdapter
    /\ pools = <<>>
    /\ lock = None
    /\ heap = [p \in PoolIds |-> NoPool]
    /\ conns = [k \in ConnIds |-> NoConn]
    /\ InitThreads
    /\ recency = <<>>
    /\ before = <<>>
    /\ seen = {}
    /\ InitDial

\* Before Store(program): the helper is in any state and keeps nothing.
InitCredentials ==
    /\ InitNoTransport
    /\ InitTypes
    /\ os_environ = [k \in EnvKeys |-> "a"]
    /\ helper \in HelperStates
    /\ keychain = [s \in ServerNames |-> NoCred]
    /\ store = NoStore
    /\ op = IdleOp
    /\ written = [s \in ServerNames |-> NotWritten]

NextStore ==
    \/ \E program \in Programs : StoreInit(program, NoneEnv)
    \/ \E server \in ServersOrBytes : CallGet(server)
    \/ \E server \in Servers, username \in Usernames, secret \in Secrets :
          CallStore(server, username, secret)
    \/ \E server \in ServersOrBytes : CallErase(server)
    \/ CallList
    \/ Execute
    \/ Return
    \/ \E h \in HelperStates : HelperBecomes(h)

SpecStore == InitCredentials /\ [][NextStore]_vars

\* Before Store(program, environment), with any process environment.
InitEnviron ==
    /\ InitNoTransport
    /\ InitTypes
    /\ os_environ \in Environs
    /\ helper = "executable"
    /\ keychain = [s \in ServerNames |-> NoCred]
    /\ store = NoStore
    /\ op = IdleOp
    /\ written = [s \in ServerNames |-> NotWritten]

NextEnviron ==
    \/ \E environment \in Overrides : StoreInit("desktop", environment)
    \/ CallList
    \/ Execute
    \/ Return
    \/ \E k \in EnvKeys, v \in EnvVals : Setenv(k, v)
    \/ \E k \in EnvKeys : Unsetenv(k)

SpecEnviron == InitEnviron /\ [][NextEnviron]_vars

\* ================================================================ claims
\* ---------------------------------------------------------------- callers of check_resource
\* A call of a method decorated with check_resource('container'): the
\* wrapper runs to its raise or to the return of the wrapped method.
CallWrapped ==
    /\ invoked.state = "calling"
    /\ invoked' =
          [ invoked EXCEPT
              !.state = "returned",
              !.request = wrapped(ResourceName, invoked.resource_id,
                                  invoked.args, invoked.kwargs).request,
              !.error = wrapped(ResourceName, invoked.resource_id,
                                invoked.args, invoked.kwargs).error ]
    /\ UNCHANGED << transportVars, dialVars, storeVars, built, compared >>

NextResource == CallWrapped

\* The calls a caller can make: the id positionally or not, other positional
\* arguments, the id by keyword or not, another keyword or not.
Calls ==
    { [ state |-> "calling", resource_id |-> resource_id, args |-> args,
        kwargs |-> IF signal THEN WithSignal(kwargs) ELSE kwargs,
        request |-> NoRequest, error |-> NoError ] :
        resource_id \in ResourceArgs, args \in { <<>>, <<str(<<"x">>)>> },
        kwargs \in Keywords(ResourceName), signal \in BOOLEAN }

InitResource ==
    /\ InitNoTransport
    /\ InitStore
    /\ invoked \in Calls
    /\ built = NotBuilt
    /\ compared = NotCompared

SpecResource == InitResource /\ [][NextResource]_vars

\* ---------------------------------------------------------------- callers of ContainerConfig
\* ContainerConfig(version, image, command, ...) runs to its raise or to its
\* end.
NewContainerConfig ==
    /\ built.state = "calling"
    /\ built.args.kind = "ContainerConfig"
    /\ built' = [ built EXCEPT !.state = "returned",
                               !.error = ContainerConfig(built.args).error,
                               !.items = ContainerConfig(built.args).items ]
    /\ UNCHANGED << transportVars, dialVars, storeVars, invoked, compared >>

NextContainerConfig == NewContainerConfig

Constructing(a) ==
    [ state |-> "calling", args |-> a, error |-> NoError, items |-> <<>> ]

InitContainerConfig ==
    /\ InitNoTransport
    /\ InitStore
    /\ invoked = NoCall
    /\ built \in { Constructing(a) : a \in ContainerArgs }
    /\ compared = NotCompared

SpecContainerConfig == InitContainerConfig /\ [][NextContainerConfig]_vars

\* ---------------------------------------------------------------- callers of HostConfig
\* HostConfig(version, ...) runs to its raise or to its end.
NewHostConfig ==
    /\ built.state = "calling"
    /\ built.args.kind = "HostConfig"
    /\ built' = [ built EXCEPT !.state = "returned",
                               !.error = HostConfig(built.args).error,
                               !.items = HostConfig(built.args).items ]
    /\ UNCHANGED << transportVars, dialVars, storeVars, invoked, compared >>

NextHostConfig == NewHostConfig

InitHostConfig ==
    /\ InitNoTransport
    /\ InitStore
    /\ invoked = NoCall
    /\ built \in { Constructing(a) : a \in HostArgs }
    /\ compared = NotCompared

SpecHostConfig == InitHostConfig /\ [][NextHostConfig]_vars

\* ---------------------------------------------------------------- callers of Model
\* a == b, b == a, hash(a) and hash(b) are evaluated for two models.
Compare ==
    /\ compared.state = "comparing"
    /\ compared' = [ compared EXCEPT
                       !.state = "compared",
                       !.ab = Equal(compared.a, compared.b),
                       !.ba = Equal(compared.b, compared.a),
                       !.hash_a = hash(compared.a),
                       !.hash_b = hash(compared.b) ]
    /\ UNCHANGED << transportVars, dialVars, storeVars, invoked, built >>

NextModel == Compare

InitModel ==
    /\ InitNoTransport
    /\ InitStore
    /\ invoked = NoCall
    /\ built = NotBuilt
    /\ compared \in { [ state |-> "comparing", a |-> a, b |-> b, ab |-> FALSE,
                        ba |-> FALSE, hash_a |-> <<>>, hash_b |-> <<>> ] :
                        a \in Models, b \in Models }

SpecModel == InitModel /\ [][NextModel]_vars

Live(p) == heap[p] # NoPool
Cached(p) == p \in Values(pools)
\* p has been handed to dispose_func, or is about to be.
Evicted(p) ==
    \/ heap[p].closedBy = "evict"
    \/ \E t \in Threads : evicted[t] = p
\* The connections of pool p that are lent now.
LentFrom(p) ==
    { conn[t] : t \in { x \in Threads : conn[x] # None /\ lent[x] /\ pool[x] = p } }
\* The least recently used of the keys of cache c, by the history r.
LruKey(c, r) ==
    r[CHOOSE i \in 1..Len(r) :
        /\ r[i] \in Keys(c)
        /\ \A j \in 1..(i - 1) : r[j] \notin Keys(c)]

\* C1: whenever the cache lock is free, the adapter's pool cache holds at
\* most pool_connections pools.
C1_CacheBounded ==
    lock = None => Len(pools) <= adapter.pool_connections

\* C1 witness: the cache is full, the lock is free and a pool has been
\* evicted from it to keep it so.
C1_Witness ==
    /\ lock = None
    /\ Len(pools) = adapter.pool_connections
    /\ \E t \in Threads : pc[t] = "done" /\ ~Cached(pool[t])
                          /\ heap[pool[t]].closedBy = "evict"

\* C2: a miss on a full cache evicts exactly one pool, the one whose url was
\* least recently passed to get_connection; that pool is closed once
\* disposed of, and every other cached pool stays cached and open.
C2_EvictsLeastRecentlyUsed ==
    /\ \A t \in Threads : pc[t] = "dispose" =>
          /\ Len(before) = adapter.pool_connections
          /\ url[t] \notin Keys(before)
          /\ evicted[t] = ValueOf(before, LruKey(before, recency))
          /\ Keys(pools) = (Keys(before) \ {LruKey(before, recency)}) \cup {url[t]}
          /\ Values(pools) = (Values(before) \ {evicted[t]}) \cup {pool[t]}
          /\ Len(pools) = Len(before)
    /\ \A t \in Threads : pc[t] = "done" /\ ~Cached(pool[t]) =>
          \/ heap[pool[t]].closed /\ heap[pool[t]].closedBy = "evict"
          \/ \E x \in Threads : evicted[x] = pool[t]
    /\ \A p \in Values(pools) : Live(p) /\ ~heap[p].closed

\* C2 witness: with room for two pools, a miss has evicted the least
\* recently used one, which another thread still holds, and the other
\* cached pool is still cached.
C2_Witness ==
    \E t \in Threads, x \in Threads :
        /\ pc[t] = "dispose"
        /\ adapter.pool_connections = 2
        /\ pc[x] = "done" /\ pool[x] = evicted[t]
        /\ Len(pools) = 2

\* C3: lookup and insert are one atomic section: a thread that has missed
\* finds the url still absent when it inserts, so no second pool is made for
\* a url while it stays cached, and the callers for one url hold the same
\* pool unless it has been evicted.
C3_OnePoolPerUrl ==
    /\ \A t \in Threads : pc[t] = "miss" => url[t] \notin Keys(pools)
    /\ \A t \in Threads : pc[t] = "done" =>
          \/ url[t] \in Keys(pools) /\ ValueOf(pools, url[t]) = pool[t]
          \/ Evicted(pool[t])
    /\ \A u \in Urls :
          Cardinality({ p \in PoolIds :
                          Live(p) /\ heap[p].base_url = u /\ ~Evicted(p) }) <= 1

\* C3 witness: two threads asked for the same url and both hold the one
\* cached pool made for it.
C3_Witness ==
    \E t \in Threads, x \in Threads :
        /\ t # x
        /\ pc[t] = "done" /\ pc[x] = "done"
        /\ url[t] = url[x] /\ pool[t] = pool[x]
        /\ Cached(pool[t])

\* C5 (state): every cached pool was built for its key with the adapter's
\* socket_path, timeout and max_pool_size, and so was every returned pool.
C5_PoolsBuiltFromAdapter ==
    /\ \A i \in 1..Len(pools) :
          /\ Live(pools[i].value)
          /\ heap[pools[i].value].base_url = pools[i].key
    /\ \A p \in PoolIds : Live(p) =>
          /\ heap[p].socket_path = adapter.socket_path
          /\ heap[p].timeout = adapter.timeout
          /\ heap[p].maxsize = adapter.max_pool_size
    /\ \A t \in Threads : pc[t] = "done" => heap[pool[t]].base_url = url[t]

\* C5 (step): a hit returns the cached pool and constructs nothing; a miss
\* constructs exactly one pool and stores it under the url.
C5_HitOrMiss ==
    \A t \in Threads :
        /\ (pc[t] = "idle" /\ pc'[t] = "done") =>
              /\ heap' = heap
              /\ url'[t] \in Keys(pools)
              /\ pool'[t] = ValueOf(pools, url'[t])
        /\ (pc[t] = "miss" /\ pc'[t] # "miss") =>
              /\ { p \in PoolIds : ~Live(p) /\ heap'[p] # NoPool } = {pool'[t]}
              /\ url[t] \in Keys(pools')
              /\ ValueOf(pools', url[t]) = pool'[t]

\* C5: get_connection(url) on a hit returns the pool made for url and
\* constructs nothing; on a miss it constructs one pool with the adapter's
\* socket_path, timeout and max_pool_size and inserts it under url.
C5_GetConnection == []C5_PoolsBuiltFromAdapter /\ [][C5_HitOrMiss]_vars

\* C5 witness: one thread holds a pool it constructed on a miss and another
\* one got the same pool by a hit.
C5_Witness ==
    \E t \in Threads, x \in Threads :
        /\ t # x
        /\ pc[t] = "done" /\ pc[x] = "done"
        /\ pool[t] = pool[x] /\ Cached(pool[t])
        /\ heap[pool[t]].maxsize = adapter.max_pool_size
        /\ heap[pool[t]].socket_path = adapter.socket_path

\* C4 (as claimed): no step closes an evicted pool while another thread is
\* lent a connection of that pool.
C4_NoCloseWhileLending ==
    [][ \A t \in Threads :
          (pc[t] = "dispose" /\ pc'[t] = "done") =>
             ~ \E x \in Threads :
                  /\ x # t
                  /\ pool[x] = evicted[t]
                  /\ conn[x] # None /\ lent[x] ]_vars

FirstClose(p) ==
    Live(p) /\ ~heap[p].closed /\ heap'[p] # NoPool /\ heap'[p].closed
LaterClose(p) ==
    Live(p) /\ heap[p].closed /\ heap'[p] # NoPool
    /\ heap'[p].closes > heap[p].closes

C7_ClosedPoolOnlyLentOpen ==
    \A p \in PoolIds : (Live(p) /\ heap[p].closed) =>
        /\ heap[p].queue = <<>>
        /\ \A k \in ConnIds :
              (conns[k] # NoConn /\ conns[k].owner = p /\ conns[k].sock = "open")
              => \E t \in Threads : conn[t] = k /\ lent[t]

\* C7 (amended, step): the first close closes the idle connections and
\* leaves the lent ones as they are; a later close changes nothing but the
\* count of calls.
C7_CloseStep ==
    \A p \in PoolIds :
        /\ FirstClose(p) =>
              \A k \in ConnIds :
                 /\ k \in Range(heap[p].queue) => conns'[k].sock = "none"
                 /\ (k \in LentFrom(p) /\ k \notin Range(heap[p].queue))
                    => conns'[k] = conns[k]
        /\ LaterClose(p) =>
              /\ conns' = conns
              /\ heap' = [heap EXCEPT ![p].closes = heap'[p].closes]

C8_NoDoubleIdle ==
    \A p \in PoolIds : Live(p) =>
        /\ Len(heap[p].queue) <= heap[p].maxsize
        /\ \A i \in 1..Len(heap[p].queue), j \in 1..Len(heap[p].queue) :
              (i # j /\ heap[p].queue[i] # None)
              => heap[p].queue[i] # heap[p].queue[j]

\* C9 (state): every value request_url returned is the request's path url,
\* which starts with "/", and two calls with the same request returned the
\* same value whatever their proxies were.
C9_PathUrlOnly ==
    /\ \A e \in seen :
          /\ e.result = (IF e.request.path = <<>> THEN <<"/">> ELSE e.request.path)
                        \o (IF e.request.query = <<>> THEN <<>>
                            ELSE <<"?">> \o e.request.query)
          /\ e.request.scheme \notin Range(e.result)
          /\ e.request.netloc \notin Range(e.result)
    /\ \A e \in seen, f \in seen : e.request = f.request => e.result = f.result

\* C9 (step): a call of request_url leaves the adapter and its pool cache as
\* they were.
C9_Frame ==
    seen' # seen => UNCHANGED << adapter, pools, heap, conns, lock >>

\* C9: request_url(request, proxies) returns exactly the request's path url
\* for every proxies value and changes neither the adapter nor the cache.
C9_RequestUrl == []C9_PathUrlOnly /\ [][C9_Frame]_vars

\* C9 witness: the same request with a query was passed with no proxies and
\* with a proxy for its scheme, and both calls returned its path url.
C9_Witness ==
    \E e \in seen, f \in seen :
        /\ e.request = f.request
        /\ e.request.query # <<>>
        /\ e.proxies = {}
        /\ \E x \in f.proxies : x.scheme = f.request.scheme
        /\ e.result = f.result

\* The url with a leading scheme stripped and the rest unchanged, with "/"
\* put in front when the rest does not start with it.
LeadingSchemeStripped(u) ==
    LET rest == IF startswith(u, Scheme)
                THEN SubSeq(u, Len(Scheme) + 1, Len(u))
                ELSE u
    IN IF startswith(rest, <<"/">>) THEN rest ELSE <<"/">> \o rest

\* C10 (as claimed): socket_path is socket_url with its leading
\* 'http+unix://' stripped and the rest unchanged, with '/' prepended when
\* the rest does not start with '/'.
C10_LeadingSchemeStripped ==
    adapter # NoAdapter => adapter.socket_path = LeadingSchemeStripped(socket_url)

\* ---------------------------------------------------------------- connect
\* Python's ConnectionError and its subclasses.
ConnectionErrors ==
    { "ConnectionError", "ConnectionRefusedError", "ConnectionResetError",
      "ConnectionAbortedError", "BrokenPipeError" }
\* The threads whose last connect() has made its calls.
Dialed == { t \in Threads : calls[t] # <<>> }

C11_OneDial ==
    \A t \in Dialed :
        /\ calls[t] = << [call |-> "socket"],
                         [call |-> "settimeout", arg |-> adapter.timeout],
                         [call |-> "connect", arg |-> adapter.socket_path] >>
        /\ (raised[t] = "none") = (conns[conn[t]].sock = "open")

\* C11 (step): the call raises what the one dial raised: FileNotFoundError
\* for a missing path, ConnectionRefusedError for a path nobody listens on,
\* socket.timeout for a dial that timed out, nothing otherwise.
C11_DialOutcome ==
    \A t \in Threads :
        (calls'[t] # calls[t] \/ raised'[t] # raised[t]) =>
            /\ (peer = "listening") = (raised'[t] = "none")
            /\ peer = "missing" => raised'[t] = "FileNotFoundError"
            /\ peer = "refusing" => raised'[t] = "ConnectionRefusedError"
            /\ peer = "silent" => raised'[t] = "TimeoutError"
            /\ raised'[t] # "none" => conns'[conn[t]] = conns[conn[t]]

Ended == op.state \in {"Succeeded", "Failed"}
\* The helper ran, exited zero and printed a JSON document.
PrintedJson == op.raised = "none" /\ op.launched > 0 /\ op.output.form = "json"
\* The record the helper printed.
Printed == loads(decode(op.output)).items
\* The message has the piece, or the pieces of sub in a row.
Contains(message, piece) == \E i \in 1..Len(message) : message[i] = piece
Includes(message, sub) ==
    \E i \in 1..(Len(message) - Len(sub) + 1) :
        SubSeq(message, i, i + Len(sub) - 1) = sub

\* C12: a get whose helper exited zero and printed a record with Username ""
\* and Secret "" raises CredentialsNotFound and returns no record.
C12_EmptyRecordNotFound ==
    (Ended /\ op.name = "get" /\ PrintedJson
       /\ Printed[<<"Username">>] = <<>> /\ Printed[<<"Secret">>] = <<>>)
    => /\ op.state = "Failed"
       /\ op.error.class = "CredentialsNotFound"
       /\ op.value = NoValue

\* C12 witness: docker-credential-pass was asked for a server it has nothing
\* for, printed the empty record, and get raised CredentialsNotFound.
C12_Witness ==
    /\ Ended /\ op.name = "get" /\ PrintedJson
    /\ store.program = <<PROGRAM_PREFIX, "pass">>
    /\ Printed[<<"Username">>] = <<>> /\ Printed[<<"Secret">>] = <<>>
    /\ op.error.class = "CredentialsNotFound"
    /\ op.launched = 1

\* C13 (as claimed): get never returns a record whose Username is "" or
\* whose Secret is "".
C13_NoEmptyField ==
    (Ended /\ op.name = "get" /\ op.state = "Succeeded")
    => /\ op.value.items[<<"Username">>] # <<>>
       /\ op.value.items[<<"Secret">>] # <<>>

\* C13 (amended): get rejects a record only when its Username and its Secret
\* are both "": what it returns is the record the helper printed, never with
\* both empty, and a record with just one of them empty is returned.
C13_OnlyBothEmptyRejected ==
    /\ (Ended /\ op.name = "get" /\ op.state = "Succeeded")
       => /\ PrintedJson
          /\ op.value.items = Printed
          /\ ~(Printed[<<"Username">>] = <<>> /\ Printed[<<"Secret">>] = <<>>)
    /\ (Ended /\ op.name = "get" /\ PrintedJson
          /\ (Printed[<<"Username">>] = <<>>) # (Printed[<<"Secret">>] = <<>>))
       => /\ op.state = "Succeeded"
          /\ op.value.items = Printed

\* C13 witness: get returned a record with a Username and the Secret "".
C13_Witness ==
    /\ Ended /\ op.name = "get" /\ op.state = "Succeeded"
    /\ op.value.items[<<"Username">>] = <<"u">>
    /\ op.value.items[<<"Secret">>] = <<>>

\* The helper was not found when the Store was constructed.
Missing == store # NoStore /\ store.exe = NoPath

\* C14 (state): with the helper not found at construction, an operation that
\* has ended has raised StoreError with "not installed" in its message and
\* has launched nothing.
C14_FailsFast ==
    (Missing /\ Ended)
    => /\ op.state = "Failed"
       /\ op.error.class = "StoreError"
       /\ Contains(op.error.message, "not installed")
       /\ op.value = NoValue
       /\ op.launched = 0

\* C14 (step): the Store is missing its helper exactly when the helper was
\* not an executable on the search path at construction, it stays so
\* whatever happens to the helper afterwards, and nothing it does reaches
\* the helper.
C14_StaysMissing ==
    /\ (store = NoStore /\ store' # NoStore)
       => (store'.exe = NoPath) = (helper \in {"absent", "noexec"})
    /\ Missing => (store' = store /\ keychain' = keychain)

\* C14: a Store whose helper was not found at construction fails every later
\* get, store, erase and list with the "not installed" StoreError and never
\* launches a process, also once the helper has become available.
C14_NotInstalled == []C14_FailsFast /\ [][C14_StaysMissing]_vars

\* C14 witness: the helper was missing at construction and is on the search
\* path now; a store has failed without a launch.
C14_Witness ==
    /\ Missing /\ Ended
    /\ helper = "executable"
    /\ op.name = "store"
    /\ op.state = "Failed"
    /\ op.launched = 0

\* C15: when launching the helper fails with an OSError the operation raises
\* StoreError: for ENOENT the one a helper missing at construction gives, for
\* any other errno one whose message carries the error's text and its errno.
C15_LaunchFailure ==
    (Ended /\ op.raised = "OSError")
    => /\ op.state = "Failed"
       /\ op.value = NoValue
       /\ op.error.class = "StoreError"
       /\ IF op.errno = ENOENT
          THEN op.error = NotLaunched(store, keychain, os_environ).error
          ELSE /\ Contains(op.error.message, op.strerror)
               /\ Contains(op.error.message, ToString(op.errno))

\* C15 witness: the helper found at construction could not be executed
\* (EACCES) and the operation raised StoreError with the error's text.
C15_Witness ==
    /\ Ended /\ op.raised = "OSError"
    /\ op.errno = 13
    /\ op.launched = 1
    /\ op.error.class = "StoreError"
    /\ Contains(op.error.message, "Permission denied")

\* C16 (as claimed): the message of every StoreError a Store operation
\* raises includes the helper program name, docker-credential-<program>.
C16_MessageNamesProgram ==
    (Ended /\ op.error.class = "StoreError")
    => Includes(op.error.message, store.program)

\* C17: a get, store or erase whose helper exited non-zero raises StoreError,
\* returns no value and has not parsed the helper's output.
C17_NonZeroExit ==
    (Ended /\ op.name \in {"get", "store", "erase"}
       /\ op.raised = "CalledProcessError")
    => /\ op.state = "Failed"
       /\ op.error.class = "StoreError"
       /\ op.value = NoValue
       /\ ~op.parsed
       /\ op.launched = 1

\* C17 witness: the helper ran for a store and exited non-zero; the store
\* raised StoreError with the helper's message.
C17_Witness ==
    /\ Ended /\ op.name = "store"
    /\ op.raised = "CalledProcessError"
    /\ op.error.class = "StoreError"
    /\ Contains(op.error.message, "error getting credentials")

\* The server an operation was called for, as a string.
OpServer == IF isinstance(op.server, "bytes") THEN decode(op.server).v
            ELSE op.server.v
\* A get runs to its end with a helper that implements the protocol.
GetStep ==
    /\ op.state = "Executing" /\ op.name = "get" /\ op'.state # "Executing"
    /\ store.exe # NoPath
    /\ helper = "executable"

\* C18 (step): a get for a server whose last successful store or erase was a
\* store of a non-empty username and secret returns a record with that
\* Username and Secret; after an erase it returns nothing.
C18_GetAfterStore ==
    GetStep =>
        /\ (written[OpServer] \notin {NotWritten, Erased}
              /\ written[OpServer].Username # <<>>
              /\ written[OpServer].Secret # <<>>)
           => /\ op'.state = "Succeeded"
              /\ op'.value.items[<<"ServerURL">>] = OpServer
              /\ op'.value.items[<<"Username">>] = written[OpServer].Username
              /\ op'.value.items[<<"Secret">>] = written[OpServer].Secret
        /\ written[OpServer] = Erased
           => /\ op'.state = "Failed"
              /\ op'.value = NoValue

\* C18: store(s, u, p) with non-empty u and p followed by get(s), with no
\* erase or store for s in between, returns Username u and Secret p, and
\* after erase(s) a get(s) does not.
C18_RoundTrip == [][C18_GetAfterStore]_vars

\* C18 witness: a get, called with the UTF-8 bytes of a server name that is
\* not ASCII, has returned the username and secret stored for that server
\* while the other server's credentials had been erased.
C18_Witness ==
    /\ Ended /\ op.name = "get" /\ op.state = "Succeeded"
    /\ op.server = encode(str(ServerName(2)))
    /\ written[ServerName(2)] = Cred(<<"u">>, <<"p">>)
    /\ op.value.items[<<"Username">>] = <<"u">>
    /\ op.value.items[<<"Secret">>] = <<"p">>
    /\ written[ServerName(1)] = Erased

\* C19 (step): an operation goes from Idle to Executing and from there to
\* Succeeded or Failed; an operation that has ended is not run again; and no
\* step of an operation changes the Store's program, exe or environment.
C19_Lifecycle ==
    /\ op.state = "Idle" => op'.state \in {"Idle", "Executing"}
    /\ op.state = "Executing" => op'.state \in {"Executing", "Succeeded", "Failed"}
    /\ Ended => op'.state \in {op.state, "Idle"}
    /\ Ended => (op'.state = op.state => op' = op)
    /\ store # NoStore => store' = store

\* C19 (state): an operation calls check_output at most once: not before it
\* runs, not at all when the helper was missing at construction, and once
\* otherwise, whether the launch or the helper failed or not.
C19_OneProcess ==
    /\ op.launched <= 1
    /\ op.state \in {"Idle", "Executing"} => op.launched = 0
    /\ (Ended /\ Missing) => op.launched = 0
    /\ (Ended /\ ~Missing) => op.launched = 1

\* C19: each Store operation goes Idle -> Executing -> Succeeded or Failed
\* with at most one helper process, none when the helper is absent, and no
\* retry; it leaves the Store's program, exe and environment as they were.
C19_OneProcessPerOperation == []C19_OneProcess /\ [][C19_Lifecycle]_vars

\* C19 witness: a list has failed because the launch failed, after one call
\* of check_output.
C19_Witness ==
    /\ op.state = "Failed"
    /\ op.name = "list"
    /\ op.raised = "OSError"
    /\ op.launched = 1

\* The overrides the Store was made with, as a dict.
StoreOverrides ==
    IF store.environment = NoneEnv THEN <<>> ELSE store.environment.items

\* C20 (state): the environment handed to the helper has every override key
\* with the override's value, every other variable of the process
\* environment with its process value, and nothing else.
C20_Merged ==
    (Ended /\ op.launched = 1)
    => /\ DOMAIN op.env.items = DOMAIN os_environ \cup DOMAIN StoreOverrides
       /\ \A k \in DOMAIN StoreOverrides : op.env.items[k] = StoreOverrides[k]
       /\ \A k \in DOMAIN os_environ \ DOMAIN StoreOverrides :
             op.env.items[k] = os_environ[k]

\* C20 (step): running an operation changes neither the process environment
\* nor the overrides the Store keeps.
C20_Frame ==
    (op.state = "Executing" /\ op'.state # "Executing")
    => /\ os_environ' = os_environ
       /\ store'.environment = store.environment

\* C20: the helper's environment is the process environment updated with
\* the overrides, and building it changes neither of them.
C20_Environment == []C20_Merged /\ [][C20_Frame]_vars

\* C20 witness: the helper was run with one variable overridden to a value
\* other than the process's and another variable inherited.
C20_Witness ==
    /\ Ended /\ op.launched = 1
    /\ \E k \in DOMAIN StoreOverrides \cap DOMAIN os_environ :
          /\ StoreOverrides[k] # os_environ[k]
          /\ op.env.items[k] = StoreOverrides[k]
    /\ \E k \in DOMAIN os_environ \ DOMAIN StoreOverrides :
          op.env.items[k] = os_environ[k]

\* ---------------------------------------------------------------- check_resource
Returned == invoked.state = "returned"

\* The resource a call gives: the positional one, or else the keyword one.
Given ==
    IF invoked.resource_id # NoValue THEN invoked.resource_id
    ELSE kwargs_get(invoked.kwargs, ResourceName)

\* The dict d has no value under key: no such key, or None or '' under it.
NoIdValue(d, key) == key \notin DOMAIN d.items \/ ~Truthy(d.items[key])

MissingId(x) ==
    \/ x = NoValue
    \/ x = str(<<>>)
    \/ isinstance(x, "dict") /\ NoIdValue(x, "Id") /\ NoIdValue(x, "ID")

\* C21: a call whose resource id is None, the empty string or a dict with
\* neither an 'Id' nor an 'ID' value, given positionally or by keyword,
\* raises NullResource('Resource ID was not provided'), and the wrapped
\* method is not invoked: no request is sent.
C21_NullResource ==
    Returned /\ MissingId(Given) =>
        /\ invoked.error = NullResource(<<"Resource ID was not provided">>)
        /\ invoked.request = NoRequest

\* A call has given a dict without ids by keyword, and NullResource was
\* raised.
C21_Witness ==
    /\ Returned
    /\ invoked.resource_id = NoValue
    /\ Given = dict([k \in {"Name"} |-> ResourceId(1)])
    /\ invoked.error.class = "NullResource"
    /\ ~invoked.request.sent

\* The resource is a plain id, or a dict with an 'Id' value.
HasId(x) ==
    \/ x \in ResourceIds
    \/ isinstance(x, "dict") /\ "Id" \in DOMAIN x.items
                             /\ x.items["Id"] \in ResourceIds
PlainId(x) == IF isinstance(x, "dict") THEN x.items["Id"] ELSE x

\* The resource is given once: positionally or by keyword, not both.
GivenOnce ==
    invoked.resource_id = NoValue \/ ResourceName \notin DOMAIN invoked.kwargs

\* C22: a call that passes the resource as a dict with an 'Id' value, as a
\* plain id string or by its keyword name calls the wrapped method with the
\* plain id as first argument; the request depends on the plain id and on
\* the other arguments only, so the three forms issue the same request.
C22_SameRequest ==
    Returned /\ HasId(Given) =>
        /\ invoked.error = NoError
        /\ invoked.request.sent
        /\ invoked.request.resource_id = PlainId(Given)
        /\ GivenOnce =>
              invoked.request =
                  method(PlainId(Given), invoked.args,
                         kwargs_pop(invoked.kwargs, ResourceName))

\* A call has given a dict with an 'Id' by keyword, next to another keyword
\* and another positional argument, and the method was called.
C22_Witness ==
    /\ Returned
    /\ invoked.resource_id = NoValue
    /\ isinstance(Given, "dict") /\ HasId(Given)
    /\ "signal" \in DOMAIN invoked.kwargs
    /\ invoked.args # <<>>
    /\ invoked.request.sent

\* ---------------------------------------------------------------- ContainerConfig
\* A ContainerConfig has been constructed without an exception.
ContainerBuilt ==
    /\ built.state = "returned"
    /\ built.args.kind = "ContainerConfig"
    /\ built.error = NoError

\* C23: in every ContainerConfig AttachStdout and AttachStderr equal
\* (not detach), AttachStdin and StdinOnce equal (stdin_open and not detach),
\* and OpenStdin equals stdin_open.
C23_AttachFlags ==
    ContainerBuilt =>
        /\ built.items.AttachStdout = bool(~built.args.detach.v)
        /\ built.items.AttachStderr = bool(~built.args.detach.v)
        /\ built.items.AttachStdin
              = bool(built.args.stdin_open.v /\ ~built.args.detach.v)
        /\ built.items.StdinOnce
              = bool(built.args.stdin_open.v /\ ~built.args.detach.v)
        /\ built.items.OpenStdin = built.args.stdin_open

\* A ContainerConfig has been constructed with detach and stdin_open both
\* true: stdin is open and not attached.
C23_Witness ==
    /\ ContainerBuilt
    /\ built.args.detach = bool(TRUE)
    /\ built.args.stdin_open = bool(TRUE)
    /\ built.items.OpenStdin = bool(TRUE)
    /\ built.items.AttachStdin = bool(FALSE)

\* The port definitions the forms of which are a bare port, a 1-tuple or a
\* 2-tuple, and the key '<port>/<proto>' of each.
Bare(d) == isinstance(d, "int")
TupleOf(d, n) == isinstance(d, "tuple") /\ Len(d.v) = n
KeyOfPort(d) ==
    CASE Bare(d) -> Decimal(d.v) \o <<"/", "t", "c", "p">>
      [] TupleOf(d, 1) -> Decimal(d.v[1].v) \o <<"/", "t", "c", "p">>
      [] TupleOf(d, 2) -> Decimal(d.v[1].v) \o <<"/">> \o d.v[2].v

PortsGiven ==
    /\ isinstance(built.args.ports, "list")
    /\ \A i \in 1..Len(built.args.ports.v) :
          \/ Bare(built.args.ports.v[i])
          \/ TupleOf(built.args.ports.v[i], 1)
          \/ TupleOf(built.args.ports.v[i], 2)

\* C25: ContainerConfig turns a ports list into ExposedPorts, a dict with
\* one key '<port>/<proto>' per entry, each mapped to an empty dict; the
\* proto of a bare port and of a 1-tuple is 'tcp', that of a 2-tuple is its
\* second element.
C25_ExposedPorts ==
    ContainerBuilt /\ PortsGiven =>
        /\ isinstance(built.items.ExposedPorts, "dict")
        /\ DOMAIN built.items.ExposedPorts.items
              = { KeyOfPort(built.args.ports.v[i]) :
                    i \in 1..Len(built.args.ports.v) }
        /\ \A k \in DOMAIN built.items.ExposedPorts.items :
              built.items.ExposedPorts.items[k] = dict(<<>>)

\* A ContainerConfig has been constructed from a 1-tuple and a 2-tuple with
\* 'udp': its ExposedPorts are '8/tcp' and '80/udp'.
C25_Witness ==
    /\ ContainerBuilt
    /\ built.args.ports
          = list(<< tuple(<< int(8) >>),
                    tuple(<< int(80), str(<<"u", "d", "p">>) >>) >>)
    /\ DOMAIN built.items.ExposedPorts.items
          = { <<"8", "/", "t", "c", "p">>, <<"8", "0", "/", "u", "d", "p">> }

\* ---------------------------------------------------------------- HostConfig
\* A HostConfig has been constructed without an exception.
HostBuilt ==
    /\ built.state = "returned"
    /\ built.args.kind = "HostConfig"
    /\ built.error = NoError

\* The optional arguments, the key of each, and those a call has given a
\* value other than the default.
OptionalArgs ==
    { "pid_mode", "read_only", "network_mode", "port_bindings", "cpu_shares",
      "auto_remove", "init_path", "mounts", "device_requests" }
KeyOfArg ==
    [ pid_mode |-> "PidMode", read_only |-> "ReadonlyRootfs",
      network_mode |-> "NetworkMode", port_bindings |-> "PortBindings",
      cpu_shares |-> "CpuShares", auto_remove |-> "AutoRemove",
      init_path |-> "InitPath", mounts |-> "Mounts",
      device_requests |-> "DeviceRequests" ]
GivenArgs(a) == { n \in OptionalArgs : a[n] # HostDefaults[n] }

\* NetworkMode is the given network_mode, or 'default' when none or an
\* empty one is given.
NetworkModeSet ==
    /\ "NetworkMode" \in DOMAIN built.items
    /\ built.items["NetworkMode"] =
          IF built.args.network_mode \in { NoValue, str(<<>>) }
          THEN str(<<"default">>) ELSE built.args.network_mode

\* C24 as stated: every successfully constructed HostConfig has NetworkMode,
\* the given network_mode or 'default'; one built from a single optional
\* argument contains exactly that argument's key and NetworkMode.
C24_SingleArgumentKey ==
    HostBuilt =>
        /\ NetworkModeSet
        /\ \A n \in OptionalArgs :
              GivenArgs(built.args) = {n} =>
                  DOMAIN built.items = { KeyOfArg[n], "NetworkMode" }

\* The arguments __init__ tests by their truth value.
ByTruth == { "pid_mode", "cpu_shares", "auto_remove" }

\* C24, amended: every successfully constructed HostConfig has NetworkMode,
\* the given network_mode or 'default'; one built from a single optional
\* argument contains NetworkMode and that argument's key, and nothing else,
\* but an argument tested by its truth value and given a false value (such
\* as cpu_shares=0) adds no key.
C24_NetworkMode ==
    HostBuilt =>
        /\ NetworkModeSet
        /\ \A n \in OptionalArgs :
              GivenArgs(built.args) = {n} =>
                  DOMAIN built.items =
                      IF n \in ByTruth /\ ~Truthy(built.args[n])
                      THEN { "NetworkMode" }
                      ELSE { KeyOfArg[n], "NetworkMode" }

\* A HostConfig has been constructed from cpu_shares=512 alone.
C24_Witness ==
    /\ HostBuilt
    /\ GivenArgs(built.args) = {"cpu_shares"}
    /\ built.args.cpu_shares = int(512)
    /\ built.items = ("CpuShares" :> int(512)
                      @@ "NetworkMode" :> str(<<"default">>))

\* The value DeviceRequest gives field i of the dict entry: that under the
\* lower-case name if the dict has that key, else that under the capitalised
\* name; the default if there is none.
TakenFrom(entry, i) ==
    IF RequestFields[i][1] \in DOMAIN entry.items
    THEN entry.items[RequestFields[i][1]]
    ELSE IF RequestFields[i][2] \in DOMAIN entry.items
    THEN entry.items[RequestFields[i][2]]
    ELSE NoValue
Expected(entry, i) ==
    IF TakenFrom(entry, i) = NoValue
    THEN << str(<<>>), int(0), list(<<>>), list(<<>>), dict(<<>>) >>[i]
    ELSE TakenFrom(entry, i)

RequestsGiven ==
    /\ built.state = "returned"
    /\ built.args.kind = "HostConfig"
    /\ isinstance(built.args.device_requests, "list")

\* C26: at an API version >= 1.40 a HostConfig with device_requests has
\* under DeviceRequests one record per entry, with exactly the keys Driver,
\* Count, DeviceIDs, Capabilities and Options, each taken from the entry's
\* lower-case or capitalised name, or '', 0, [], [], {} when missing; at a
\* version below 1.40 the construction raises, and it raises InvalidVersion
\* when nothing else is given.
C26_DeviceRequests ==
    /\ RequestsGiven /\ built.error = NoError =>
          /\ version_gte(built.args.version, <<1, 40>>)
          /\ Len(built.items["DeviceRequests"].v)
                = Len(built.args.device_requests.v)
          /\ \A e \in 1..Len(built.args.device_requests.v) :
                /\ DOMAIN built.items["DeviceRequests"].v[e].items
                      = { "Driver", "Count", "DeviceIDs", "Capabilities",
                          "Options" }
                /\ isinstance(built.args.device_requests.v[e], "dict") =>
                      \A i \in 1..5 :
                          built.items["DeviceRequests"].v[e].items[RequestFields[i][2]]
                              = Expected(built.args.device_requests.v[e], i)
    /\ RequestsGiven /\ version_lt(built.args.version, <<1, 40>>) =>
          /\ built.error # NoError
          /\ GivenArgs(built.args) = {"device_requests"} =>
                built.error =
                    InvalidVersion(
                        << "device_requests",
                           " param is not supported in API versions ",
                           "<", " ", "1", ".", "4", "0" >>)

\* A HostConfig has been constructed at version 1.40 from two entries, one
\* that names a field by its key and the empty dict.
C26_Witness ==
    /\ HostBuilt
    /\ built.args.version = <<1, 40>>
    /\ built.args.device_requests
          = list(<< dict("DeviceIDs" :> list(<< str(<<"0">>) >>)), dict(<<>>) >>)
    /\ built.items["DeviceRequests"].v[1].items
          = [ Driver |-> str(<<>>), Count |-> int(0),
              DeviceIDs |-> list(<< str(<<"0">>) >>),
              Capabilities |-> list(<<>>), Options |-> dict(<<>>) ]
    /\ built.items["DeviceRequests"].v[2].items
          = [ Driver |-> str(<<>>), Count |-> int(0), DeviceIDs |-> list(<<>>),
              Capabilities |-> list(<<>>), Options |-> dict(<<>>) ]

\* C30: a HostConfig constructed at version v from arguments without
\* init_path is constructed with the same items at every version above v;
\* init_path alone is accepted exactly at the versions from 1.25 and below
\* 1.29.
C30_Monotone ==
    /\ HostBuilt /\ built.args.init_path = NoValue =>
          \A w \in Versions :
              version_lt(built.args.version, w) =>
                  HostConfig([built.args EXCEPT !.version = w])
                      = Built(built.items)
    /\ /\ built.state = "returned"
       /\ built.args.kind = "HostConfig"
       /\ GivenArgs(built.args) = {"init_path"}
       => (built.error = NoError <=>
              /\ version_gte(built.args.version, <<1, 25>>)
              /\ version_lt(built.args.version, <<1, 29>>))

\* A HostConfig has been constructed at version 1.30 from mounts and
\* auto_remove, which lower versions refuse.
C30_Witness ==
    /\ HostBuilt
    /\ built.args.version = <<1, 30>>
    /\ GivenArgs(built.args) = {"mounts", "auto_remove"}
    /\ DOMAIN built.items = {"Mounts", "AutoRemove", "NetworkMode"}

\* ---------------------------------------------------------------- Model
\* C29: for two models a and b, of one class or of a class and a class
\* derived from it, a == b implies b == a and hash(a) == hash(b).
C29_EqualitySymmetric ==
    /\ compared.state = "compared"
    /\ \/ issubclass(compared.a.class, compared.b.class)
       \/ issubclass(compared.b.class, compared.a.class)
    /\ compared.ab
    => /\ compared.ba
       /\ compared.hash_a = compared.hash_b

\* Two models of one class with equal ids and different other attributes
\* have been found equal.
C29_Witness ==
    /\ compared.state = "compared"
    /\ compared.a.class = compared.b.class
    /\ compared.a.attrs # compared.b.attrs
    /\ id(compared.a) # NoValue
    /\ compared.ab /\ compared.ba
    /\ compared.hash_a = compared.hash_b

\* ---------------------------------------------------------------- eviction under the lock
\* Thread t has inserted a pool, which evicted another, and the close of the
\* evicted pool has not returned.
Disposing(t) == pc[t] = "dispose"

\* While a thread disposes of an evicted pool it owns the cache lock, and
\* every other thread is outside get_connection.
C27_HoldsLock ==
    \A t \in Threads :
        Disposing(t) =>
            /\ lock = t
            /\ evicted[t] # None
            /\ \A o \in Threads \ {t} : pc[o] \in {"idle", "done"}

\* While a thread disposes of an evicted pool no other thread enters or
\* completes a get_connection; it can only drop a pool it got before.
C27_NoneCompletes ==
    \A t \in Threads, o \in Threads :
        Disposing(t) /\ o # t =>
            \/ pc'[o] = pc[o]
            \/ pc[o] = "done" /\ pc'[o] = "idle"

\* C27: the close of an evicted pool runs while the evicting thread holds
\* the cache lock: from the insert that evicts until the close has returned
\* no other thread's get_connection completes, whichever url it asks for.
C27_EvictionBlocks == []C27_HoldsLock /\ [][C27_NoneCompletes]_vars

\* Thread 1 is about to close the pool it evicted while thread 2 has not
\* entered get_connection.
C27_Witness ==
    /\ Disposing(1)
    /\ lock = 1
    /\ Live(evicted[1])
    /\ pc[2] = "idle"

\* ---------------------------------------------------------------- the socket of connect
\* A connection's sock is set only by a connect() that set the connection's
\* timeout, dialed its unix_socket and returned.
C28_SockDialed ==
    \A k \in ConnIds :
        conns[k] # NoConn /\ conns[k].sock # "none" =>
            \E t \in Dialed :
                /\ conn[t] = k
                /\ raised[t] = "none"
                /\ socks[t] = "kept"
                /\ calls[t] = << [call |-> "socket"],
                                 [call |-> "settimeout", arg |-> conns[k].timeout],
                                 [call |-> "connect", arg |-> conns[k].unix_socket] >>

\* A connect() whose dial failed has left sock unset and its socket closed.
C28_FailedDialClosed ==
    \A t \in Dialed :
        raised[t] # "none" =>
            /\ conns[conn[t]].sock = "none"
            /\ socks[t] # "left"

\* C28: a connection's sock is set only to a socket that has completed a
\* dial to unix_socket with the configured timeout applied; a connect()
\* whose dial fails leaves sock as it was and leaves no socket opened by that
\* attempt open.
C28_NoSocketLeftOpen == C28_SockDialed /\ C28_FailedDialClosed

====
